---------------------------- MODULE Spec2Model ----------------------------
(***************************************************************************)
(* Model of the plate-detection core of police-plate-gate:                 *)
(*   src/src/DetectPlates.py  (candidate filter, scene pass)                *)
(*   src/src/DetectChars.py   (similarity test, partition into groups,      *)
(*                             inner-overlap removal, in-plate pass)        *)
(*                                                                         *)
(* A contour candidate (ContourWithData) is a record                       *)
(*   [id, intRectX, intRectY, intRectWidth, intRectHeight, fltArea, glyph] *)
(* id stands for the Python object's identity: the code compares           *)
(* candidates with == and "in" on a class that defines no __eq__, which is *)
(* identity.  fltArea is a whole number of pixels.  glyph is the character *)
(* the k-nearest classifier answers for the candidate's image region.      *)
(*                                                                         *)
(* Float comparisons are modelled by exact integer cross-multiplication:   *)
(*   x / y < 0.5   as  2*x < y        x / y < 0.8  as  5*x < 4*y            *)
(*   x / y < 0.2   as  5*x < y        sqrt(s) < 5*a as  s < 25*a*a          *)
(*   atan(o/a) in degrees < 12  as  o/a < tan(12 deg) = 0.2125565616...     *)
(* For the integers of the model these agree with IEEE double arithmetic.  *)
(***************************************************************************)
EXTENDS Integers, Sequences, FiniteSets

VARIABLES
    pc,               \* which operation has run
    candidate,        \* the candidate under test, or the reference of a match
    thresholds,       \* the filter's threshold configuration
    accepted,         \* result of the candidate filter
    chars,            \* the list of candidates an operation is given
    matching,         \* the list of candidates an operation returns
    groups,           \* the list of groups an operation returns
    plates,           \* listOfPossiblePlates of detectCharsInPlates
    contoursIsTuple,  \* cv2.findContours answers a tuple (OpenCV >= 4.5.4) or a list
    resolvedGroups,   \* the groups after sorting and overlap resolution
    rrLocations,      \* rrLocationOfPlateInScene of each extracted plate
    strChars,         \* the string recognizeCharsInPlate returns
    gate,             \* the GateController object
    sensor,           \* the UltrasonicSensor object
    clock,            \* time.time(), in seconds
    updates,          \* the plates passed to update_verification so far
    trueTimes,        \* the clock readings at which the sensor let a frame through
    plateRead,        \* the plate text handed to the last call
    returned,         \* the value the last call returned
    recognizer,       \* the PlateRecognizer object and the detection steps it ran
    verifiedLog,      \* the plates for which is_plate_verified answered True
    station,          \* main.py: the frame loop of process_video_stream
    system,           \* main3.py: the PlateRecognitionSystem object and its threads
    monitor           \* the monitoring threads of the UltrasonicSensor

\* the variables of the recognition pipeline added to the first ones, those
\* of the gate controller, and those of the host programs around them
hostVars == <<recognizer, verifiedLog, station, system, monitor>>

extras == <<resolvedGroups, rrLocations, strChars, gate, sensor, clock, updates, trueTimes,
           plateRead, returned, hostVars>>

vars == <<pc, candidate, thresholds, accepted, chars, matching, groups,
          plates, contoursIsTuple, extras>>

-----------------------------------------------------------------------------
(* Program constants, src/src/DetectChars.py lines 8-30 *)

MIN_PIXEL_WIDTH == 2
MIN_PIXEL_HEIGHT == 8
MIN_CONTOUR_AREA == 100
MIN_NUMBER_OF_MATCHING_CHARS == 3
\* MIN_ASPECT_RATIO = 0.25 and MAX_ASPECT_RATIO = 1.0 as fractions n/d
MIN_ASPECT_RATIO == [n |-> 1, d |-> 4]
MAX_ASPECT_RATIO == [n |-> 1, d |-> 1]

NoChar == [id |-> 0, intRectX |-> 0, intRectY |-> 0, intRectWidth |-> 0,
           intRectHeight |-> 0, fltArea |-> 0, glyph |-> ""]

Contour(i, x, y, w, h, a, g) ==
    [id |-> i, intRectX |-> x, intRectY |-> y, intRectWidth |-> w,
     intRectHeight |-> h, fltArea |-> a, glyph |-> g]

Abs(n) == IF n < 0 THEN -n ELSE n

-----------------------------------------------------------------------------
(* CandidateFilter: DetectPlates.checkIfContourIsValidChar.  The code reads *)
(* the thresholds from DetectChars' module constants; th makes them a       *)
(* parameter so that other configurations can be compared.                 *)

CodeThresholds ==
    [minArea |-> MIN_CONTOUR_AREA, minW |-> MIN_PIXEL_WIDTH, minH |-> MIN_PIXEL_HEIGHT,
     minAspect |-> MIN_ASPECT_RATIO, maxAspect |-> MAX_ASPECT_RATIO]

\* r < w/h for the fraction r, h > 0
AspectAbove(c, r) == r.n * c.intRectHeight < c.intRectWidth * r.d
\* w/h < r
AspectBelow(c, r) == c.intRectWidth * r.d < r.n * c.intRectHeight

\* mutant: the area bound compared the wrong way round
ValidCharUnderAreaFlipped(c, th) ==
    /\ c.fltArea < th.minArea
    /\ c.intRectWidth > th.minW
    /\ c.intRectHeight > th.minH
    /\ AspectAbove(c, th.minAspect)
    /\ AspectBelow(c, th.maxAspect)

ValidCharUnder(c, th) ==
    /\ c.fltArea > th.minArea
    /\ c.intRectWidth > th.minW
    /\ c.intRectHeight > th.minH
    /\ AspectAbove(c, th.minAspect)
    /\ AspectBelow(c, th.maxAspect)

checkIfContourIsValidChar(c) == ValidCharUnder(c, CodeThresholds)

\* ContourWithData.checkIfContourIsValid
checkIfContourIsValid(c) == ~(c.fltArea < MIN_CONTOUR_AREA)

-----------------------------------------------------------------------------
(* SimilarityMetric: DetectChars.findListOfMatchingChars and its helpers.   *)

\* MAX_DIAG_SIZE_MULTIPLE_AWAY = 5.0
MAX_DIAG_SIZE_MULTIPLE_AWAY == 5
\* MAX_CHANGE_IN_AREA = 0.5, MAX_CHANGE_IN_WIDTH = 0.8, MAX_CHANGE_IN_HEIGHT = 0.2
MAX_CHANGE_IN_AREA == [n |-> 1, d |-> 2]
MAX_CHANGE_IN_WIDTH == [n |-> 4, d |-> 5]
MAX_CHANGE_IN_HEIGHT == [n |-> 1, d |-> 5]
\* MAX_ANGLE_BETWEEN_CHARS = 12.0 degrees, as its tangent 0.2125565...: for
\* 0 < adj <= 1300 and 0 <= opp <= 2000, atan(opp/adj)*180/pi < 12.0 in double
\* arithmetic exactly when opp * 1000000 < adj * 212557.
TAN_MAX_ANGLE_BETWEEN_CHARS == [n |-> 212557, d |-> 1000000]

\* distanceBetweenChars returns sqrt(intX^2 + intY^2); this is its square.
distanceBetweenCharsSquared(firstChar, secondChar) ==
    LET intX == Abs(firstChar.intRectX - secondChar.intRectX)
        intY == Abs(firstChar.intRectY - secondChar.intRectY)
    IN  intX * intX + intY * intY

\* mutant: two candidates at one point are taken to be level
angleBetweenCharsLevelAtOnePoint(firstChar, secondChar) ==
    LET fltAdj == Abs(firstChar.intRectX - secondChar.intRectX)
        fltOpp == Abs(firstChar.intRectY - secondChar.intRectY)
    IN  IF fltAdj # 0
        THEN fltOpp * TAN_MAX_ANGLE_BETWEEN_CHARS.d < fltAdj * TAN_MAX_ANGLE_BETWEEN_CHARS.n
        ELSE fltOpp = 0

\* angleBetweenChars(firstChar, secondChar) < MAX_ANGLE_BETWEEN_CHARS.  With
\* fltAdj = 0 the code takes 1.5708 rad = 90.0002 degrees, which is not below.
angleBetweenCharsBelowMax(firstChar, secondChar) ==
    LET fltAdj == Abs(firstChar.intRectX - secondChar.intRectX)
        fltOpp == Abs(firstChar.intRectY - secondChar.intRectY)
    IN  IF fltAdj # 0
        THEN fltOpp * TAN_MAX_ANGLE_BETWEEN_CHARS.d < fltAdj * TAN_MAX_ANGLE_BETWEEN_CHARS.n
        ELSE FALSE

\* x / y < r for the fraction r and y > 0
RatioBelow(x, y, r) == x * r.d < r.n * y

\* mutant: the height tolerance accepted up to and including the bound
MatchesCharHeightInclusive(possibleChar, possibleMatchingChar) ==
    /\ distanceBetweenCharsSquared(possibleChar, possibleMatchingChar)
         < (possibleChar.fltArea * MAX_DIAG_SIZE_MULTIPLE_AWAY)
           * (possibleChar.fltArea * MAX_DIAG_SIZE_MULTIPLE_AWAY)
    /\ angleBetweenCharsBelowMax(possibleChar, possibleMatchingChar)
    /\ RatioBelow(Abs(possibleMatchingChar.fltArea - possibleChar.fltArea),
                  possibleChar.fltArea, MAX_CHANGE_IN_AREA)
    /\ RatioBelow(Abs(possibleMatchingChar.intRectWidth - possibleChar.intRectWidth),
                  possibleChar.intRectWidth, MAX_CHANGE_IN_WIDTH)
    /\ Abs(possibleMatchingChar.intRectHeight - possibleChar.intRectHeight) * 5
         <= possibleChar.intRectHeight

\* mutant: the tolerances scaled by the larger of the two candidates, which
\* makes the test symmetric
MatchesCharSymmetric(possibleChar, possibleMatchingChar) ==
    LET Max(p, q) == IF p > q THEN p ELSE q
        a == Max(possibleChar.fltArea, possibleMatchingChar.fltArea)
        w == Max(possibleChar.intRectWidth, possibleMatchingChar.intRectWidth)
        h == Max(possibleChar.intRectHeight, possibleMatchingChar.intRectHeight)
    IN  /\ distanceBetweenCharsSquared(possibleChar, possibleMatchingChar)
             < (a * MAX_DIAG_SIZE_MULTIPLE_AWAY) * (a * MAX_DIAG_SIZE_MULTIPLE_AWAY)
        /\ angleBetweenCharsBelowMax(possibleChar, possibleMatchingChar)
        /\ RatioBelow(Abs(possibleMatchingChar.fltArea - possibleChar.fltArea), a, MAX_CHANGE_IN_AREA)
        /\ RatioBelow(Abs(possibleMatchingChar.intRectWidth - possibleChar.intRectWidth), w, MAX_CHANGE_IN_WIDTH)
        /\ RatioBelow(Abs(possibleMatchingChar.intRectHeight - possibleChar.intRectHeight), h, MAX_CHANGE_IN_HEIGHT)

\* The condition of lines 183-187, possibleChar being the reference.
MatchesChar(possibleChar, possibleMatchingChar) ==
    /\ distanceBetweenCharsSquared(possibleChar, possibleMatchingChar)
         < (possibleChar.fltArea * MAX_DIAG_SIZE_MULTIPLE_AWAY)
           * (possibleChar.fltArea * MAX_DIAG_SIZE_MULTIPLE_AWAY)
    /\ angleBetweenCharsBelowMax(possibleChar, possibleMatchingChar)
    /\ RatioBelow(Abs(possibleMatchingChar.fltArea - possibleChar.fltArea),
                  possibleChar.fltArea, MAX_CHANGE_IN_AREA)
    /\ RatioBelow(Abs(possibleMatchingChar.intRectWidth - possibleChar.intRectWidth),
                  possibleChar.intRectWidth, MAX_CHANGE_IN_WIDTH)
    /\ RatioBelow(Abs(possibleMatchingChar.intRectHeight - possibleChar.intRectHeight),
                  possibleChar.intRectHeight, MAX_CHANGE_IN_HEIGHT)

\* findListOfMatchingChars: the members of listOfChars, in list order, that
\* are not possibleChar itself and that pass the test against it.
findListOfMatchingChars(possibleChar, listOfChars) ==
    LET Keep(possibleMatchingChar) ==
            /\ possibleMatchingChar.id # possibleChar.id
            /\ MatchesChar(possibleChar, possibleMatchingChar)
    IN  SelectSeq(listOfChars, Keep)

-----------------------------------------------------------------------------
(* ClusterPartitioner: DetectChars.findListOfListsOfMatchingChars.          *)

\* "contour in list" (identity)
InList(contour, list) == \E k \in 1..Len(list) : list[k].id = contour.id

\* mutant: only the seed is taken out of the list before recursing
ContoursWithoutSeedOnly(listOfContours, listOfContoursWithMatchingChars) ==
    LET seed == listOfContoursWithMatchingChars[Len(listOfContoursWithMatchingChars)]
        Out(contour) == contour.id # seed.id
    IN  SelectSeq(listOfContours, Out)

\* lines 147-157: the contours of listOfContours outside the emitted group
ContoursWithout(listOfContours, listOfContoursWithMatchingChars) ==
    LET Out(contour) == ~InList(contour, listOfContoursWithMatchingChars)
    IN  SelectSeq(listOfContours, Out)

\* mutant: the seed left out of its own group
GroupOfSeedMatchesOnly(contour, listOfContours) ==
    findListOfMatchingChars(contour, listOfContours)

\* lines 139-140: the seed's matches, then the seed itself
GroupOfSeed(contour, listOfContours) ==
    Append(findListOfMatchingChars(contour, listOfContours), contour)

\* mutant: the size test made before the seed is counted, so that a seed with
\* a single match emits a pair
GroupBigEnoughOffByOne(listOfMatchingChars) ==
    ~(Len(listOfMatchingChars) < MIN_NUMBER_OF_MATCHING_CHARS - 1)

\* line 142: the group is kept unless it is shorter than the minimum
GroupBigEnough(listOfMatchingChars) ==
    ~(Len(listOfMatchingChars) < MIN_NUMBER_OF_MATCHING_CHARS)

RECURSIVE findListOfListsOfMatchingCharsFrom(_, _)

\* mutant: only the first candidate of the list is tried as a seed
findListOfListsOfMatchingCharsFirstOnly(listOfContours, i) ==
    IF i > Len(listOfContours)
    THEN <<>>
    ELSE LET group == GroupOfSeed(listOfContours[i], listOfContours)
         IN  IF ~GroupBigEnough(group)
             THEN <<>>
             ELSE <<group>> \o
                  findListOfListsOfMatchingCharsFrom(ContoursWithout(listOfContours, group), 1)

\* The for loop of lines 138-164 from position i on: a seed whose group is
\* too small is skipped (continue); the first seed with a big enough group
\* emits it, recurses on the rest of the list and ends the loop (break).
findListOfListsOfMatchingCharsFrom(listOfContours, i) ==
    IF i > Len(listOfContours)
    THEN <<>>
    ELSE LET group == GroupOfSeed(listOfContours[i], listOfContours)
         IN  IF ~GroupBigEnough(group)
             THEN findListOfListsOfMatchingCharsFrom(listOfContours, i + 1)
             ELSE <<group>> \o
                  findListOfListsOfMatchingCharsFrom(ContoursWithout(listOfContours, group), 1)

\* mutant: the contours left in no group returned as a last group
findListOfListsOfMatchingCharsWithRest(listOfContours) ==
    LET found == findListOfListsOfMatchingCharsFrom(listOfContours, 1)
        Left(contour) == \A i \in 1..Len(found) : ~InList(contour, found[i])
    IN  found \o <<SelectSeq(listOfContours, Left)>>

findListOfListsOfMatchingChars(listOfContours) ==
    findListOfListsOfMatchingCharsFrom(listOfContours, 1)

-----------------------------------------------------------------------------
(* OverlapResolver: DetectChars.removeInnerOverlappingChars.                *)

\* mutant: containment tested without the strictness of the four sides
IsInsideOrTouching(currentChar, otherChar) ==
    /\ currentChar.intRectX >= otherChar.intRectX
    /\ currentChar.intRectY >= otherChar.intRectY
    /\ currentChar.intRectX + currentChar.intRectWidth
         <= otherChar.intRectX + otherChar.intRectWidth
    /\ currentChar.intRectY + currentChar.intRectHeight
         <= otherChar.intRectY + otherChar.intRectHeight

\* lines 225-228: currentChar lies strictly inside otherChar
IsInside(currentChar, otherChar) ==
    /\ currentChar.intRectX > otherChar.intRectX
    /\ currentChar.intRectY > otherChar.intRectY
    /\ currentChar.intRectX + currentChar.intRectWidth
         < otherChar.intRectX + otherChar.intRectWidth
    /\ currentChar.intRectY + currentChar.intRectHeight
         < otherChar.intRectY + otherChar.intRectHeight

\* mutant: inner characters removed from the list while it is walked, so
\* that the character after a removed one is passed over
RECURSIVE RemoveInnerInPlaceFrom(_, _)
RemoveInnerInPlaceFrom(list, i) ==
    IF i > Len(list)
    THEN list
    ELSE IF \E k \in 1..Len(list) : list[k].id # list[i].id /\ IsInside(list[i], list[k])
         THEN RemoveInnerInPlaceFrom(SubSeq(list, 1, i - 1) \o SubSeq(list, i + 1, Len(list)), i + 1)
         ELSE RemoveInnerInPlaceFrom(list, i + 1)

removeInnerOverlappingCharsInPlace(list) == RemoveInnerInPlaceFrom(list, 1)

removeInnerOverlappingChars(list) ==
    LET NotInner(currentChar) ==
            ~\E k \in 1..Len(list) :
                /\ list[k].id # currentChar.id
                /\ IsInside(currentChar, list[k])
    IN  SelectSeq(list, NotInner)


-----------------------------------------------------------------------------
(* The in-plate pass: DetectChars.detectCharsInPlates and                   *)
(* recognizeCharsInPlate.  A plate is a record [crop, strChars]: crop is    *)
(* the list of contours cv2.findContours traces in the plate's thresholded  *)
(* image, strChars a sequence of characters (<<>> is the empty string).     *)

\* list.sort(key = intRectX): stable, ascending
RECURSIVE SortByX(_)
SortByX(list) ==
    IF Len(list) <= 1
    THEN list
    ELSE LET sorted == SortByX(SubSeq(list, 1, Len(list) - 1))
             last == list[Len(list)]
             NotAfter(c) == c.intRectX <= last.intRectX
             After(c) == c.intRectX > last.intRectX
         IN  SelectSeq(sorted, NotAfter) \o <<last>> \o SelectSeq(sorted, After)

\* lines 114-116: every group sorted left to right and overlap-resolved
RECURSIVE ResolveGroups(_)
ResolveGroups(listOfLists) ==
    IF listOfLists = <<>>
    THEN <<>>
    ELSE <<removeInnerOverlappingChars(SortByX(Head(listOfLists)))>>
         \o ResolveGroups(Tail(listOfLists))

\* lines 118-124: the index of the first group of the greatest length
IndexOfLongestListOfChars(listOfLists) ==
    CHOOSE i \in 1..Len(listOfLists) :
        /\ \A j \in 1..Len(listOfLists) : Len(listOfLists[j]) <= Len(listOfLists[i])
        /\ \A j \in 1..(i - 1) : Len(listOfLists[j]) < Len(listOfLists[i])

\* recognizeCharsInPlate: the classifier's character of each candidate,
\* left to right
RECURSIVE GlyphsOf(_)
GlyphsOf(list) ==
    IF list = <<>> THEN <<>> ELSE <<Head(list).glyph>> \o GlyphsOf(Tail(list))

recognizeCharsInPlate(listOfMatchingChars) == GlyphsOf(SortByX(listOfMatchingChars))

\* the glyph of a candidate for which the classifier yields no character:
\* kNearest.findNearest raises, or answers nothing that line 266 can unpack
\* and convert
NoResult == "no result"

\* lines 249-268 raise on a candidate of the list: no line of
\* recognizeCharsInPlate catches what line 264 or 266 raises
ClassifierRaises(listOfMatchingChars) ==
    \E k \in 1..Len(listOfMatchingChars) : listOfMatchingChars[k].glyph = NoResult

\* lines 109-128 for one plate, given the list the loop of lines 99-107
\* leaves in contours
CharsOfContours(possiblePlate, contours) ==
    LET listOfListsOfMatchingCharsInPlate == findListOfListsOfMatchingChars(contours)
    IN  IF Len(listOfListsOfMatchingCharsInPlate) = 0
        THEN possiblePlate
        ELSE LET resolved == ResolveGroups(listOfListsOfMatchingCharsInPlate)
                 longest == resolved[IndexOfLongestListOfChars(resolved)]
             IN  [possiblePlate EXCEPT !.strChars = recognizeCharsInPlate(longest)]

\* line 97, del contours[:], on the list cv2.findContours returned: the list
\* is emptied in place
DelContours(contours) == <<>>

\* lines 99-107: each contour of the list becomes a candidate that is
\* appended to the same list if it is valid; nothing is removed.  The loop
\* goes on over what it appended, and cv2.boundingRect raises on the first
\* candidate it is given in place of a contour.  A list without a valid
\* contour is left as it is.  The list was emptied by line 97, so no turn
\* of the loop runs.
ValidContoursOf(contours) ==
    IF \E k \in 1..Len(contours) : checkIfContourIsValid(contours[k])
    THEN [raised |-> "cv2.error"]
    ELSE contours

\* lines 84-130 for one plate when cv2.findContours answers a list
DetectCharsInPlate(possiblePlate) ==
    CharsOfContours(possiblePlate, ValidContoursOf(DelContours(possiblePlate.crop)))


-----------------------------------------------------------------------------
(* PlateGeometry: DetectPlates.extractPlate.  The plate's location is the   *)
(* record [ptPlateCenter, intPlateWidth, intPlateHeight,                    *)
(* fltCorrectionAngle]: the centre is kept as twice its coordinates (the    *)
(* code halves whole numbers), and the angle, atan(opp / hyp) in degrees,   *)
(* as the pair [opp, hypSquared] of its opposite side and of the square of  *)
(* its hypotenuse.                                                          *)

\* PLATE_WIDTH_PADDING_FACTOR = 1.3 and PLATE_HEIGHT_PADDING_FACTOR = 1.5
PLATE_WIDTH_PADDING_FACTOR == [n |-> 13, d |-> 10]
PLATE_HEIGHT_PADDING_FACTOR == [n |-> 3, d |-> 2]

\* lines 104-107: intTotalOfCharHeights
RECURSIVE intTotalOfCharHeights(_)
intTotalOfCharHeights(list) ==
    IF list = <<>> THEN 0
    ELSE Head(list).intRectHeight + intTotalOfCharHeights(Tail(list))

\* line 102: from the left edge of the first character to the right edge of
\* the last
PlateExtent(sorted) ==
    sorted[Len(sorted)].intRectX + sorted[Len(sorted)].intRectWidth - sorted[1].intRectX

\* mutant: the angle taken between the first two characters
CorrectionAngleOfFirstTwo(sorted) ==
    LET second == sorted[IF Len(sorted) > 1 THEN 2 ELSE 1]
        hypSquared == distanceBetweenCharsSquared(sorted[1], second)
    IN  IF hypSquared = 0
        THEN "ZeroDivisionError"
        ELSE [opp |-> second.intRectY - sorted[1].intRectY, hypSquared |-> hypSquared]

\* lines 113-116: atan(fltOppositeOfAngle / fltHypotenuseOfAngle) between the
\* first and the last character; the division raises when both are at one
\* point
CorrectionAngle(sorted) ==
    LET hypSquared == distanceBetweenCharsSquared(sorted[1], sorted[Len(sorted)])
    IN  IF hypSquared = 0
        THEN "ZeroDivisionError"
        ELSE [opp |-> sorted[Len(sorted)].intRectY - sorted[1].intRectY,
              hypSquared |-> hypSquared]

\* lines 95-118.  int() cuts the padded extent and the padded mean height
\* down to whole numbers; both are positive, so it is the floor.  Line 97
\* raises IndexError on an empty list, line 115 ZeroDivisionError when the
\* first and the last character are at one point; no region is returned then.
extractPlate(listOfMatchingChars) ==
    IF Len(listOfMatchingChars) = 0
    THEN [raised |-> "IndexError"]
    ELSE LET sorted == SortByX(listOfMatchingChars)
         IN  IF distanceBetweenCharsSquared(sorted[1], sorted[Len(sorted)]) = 0
             THEN [raised |-> "ZeroDivisionError"]
             ELSE
             [ptPlateCenter |->
                  [x2 |-> sorted[1].intRectX + sorted[Len(sorted)].intRectX
                            + sorted[Len(sorted)].intRectWidth,
                   y2 |-> sorted[1].intRectY + sorted[1].intRectHeight],
              intPlateWidth |->
                  (PlateExtent(sorted) * PLATE_WIDTH_PADDING_FACTOR.n)
                      \div PLATE_WIDTH_PADDING_FACTOR.d,
              intPlateHeight |->
                  (intTotalOfCharHeights(sorted) * PLATE_HEIGHT_PADDING_FACTOR.n)
                      \div (Len(sorted) * PLATE_HEIGHT_PADDING_FACTOR.d),
              fltCorrectionAngle |-> CorrectionAngle(sorted)]

\* no result of the recognition pipeline yet
PipelineIdle ==
    /\ resolvedGroups = <<>>
    /\ rrLocations = <<>>
    /\ strChars = <<>>

-----------------------------------------------------------------------------
(* GateController: src/src/gate_control.py.  Plates are strings, times are  *)
(* whole seconds, distances whole centimetres.                              *)

None == "None"

\* utils.get_default_config
DefaultConfig ==
    [homeowner_plates |-> <<"R3944FG", "R5477DP">>, guest_plates |-> <<>>,
     verification_count |-> 3, scan_cooldown |-> 2, ultrasonic_threshold |-> 15]

\* GateController.__init__: use_ultrasonic is the argument and-ed with the
\* outcome of importing the sensor module
GateController(config, use_ultrasonic) ==
    [use_ultrasonic |-> use_ultrasonic,
     ultrasonic_sensor |-> None,
     homeowner_plates |-> config.homeowner_plates,
     guest_plates |-> config.guest_plates,
     verification_buffer |-> <<>>,
     verification_count |-> config.verification_count,
     last_verified_plate |-> "",
     last_scan_time |-> 0,
     scan_cooldown |-> config.scan_cooldown,
     ultrasonic_threshold |-> config.ultrasonic_threshold,
     last_access_result |-> None]

\* float('inf'): above every reading
Inf == 1000000

\* UltrasonicSensor.__init__
UltrasonicSensor == [distance |-> Inf]

\* UltrasonicSensor.is_object_detected
is_object_detected(self, threshold) ==
    self.distance # Inf /\ self.distance <= threshold

\* "plate in list"
InPlates(plate, list) == \E k \in 1..Len(list) : list[k] = plate

\* mutant: the guest list consulted before the homeowner list
check_accessGuestFirst(self, plate) ==
    IF plate = ""
    THEN [access_granted |-> FALSE, type |-> "error", plate |-> ""]
    ELSE IF InPlates(plate, self.guest_plates)
    THEN [access_granted |-> TRUE, type |-> "guest", plate |-> plate]
    ELSE IF InPlates(plate, self.homeowner_plates)
    THEN [access_granted |-> TRUE, type |-> "homeowner", plate |-> plate]
    ELSE [access_granted |-> FALSE, type |-> "unknown", plate |-> plate]

\* check_access: the result's access_granted and type, and the plate its
\* message names
check_access(self, plate) ==
    IF plate = ""
    THEN [access_granted |-> FALSE, type |-> "error", plate |-> ""]
    ELSE IF InPlates(plate, self.homeowner_plates)
    THEN [access_granted |-> TRUE, type |-> "homeowner", plate |-> plate]
    ELSE IF InPlates(plate, self.guest_plates)
    THEN [access_granted |-> TRUE, type |-> "guest", plate |-> plate]
    ELSE [access_granted |-> FALSE, type |-> "unknown", plate |-> plate]

\* update_verification: the controller after the call
update_verification(self, plate) ==
    LET kept == IF Len(self.verification_buffer) >= self.verification_count
                THEN Tail(self.verification_buffer)
                ELSE self.verification_buffer
    IN  [self EXCEPT !.verification_buffer = Append(kept, plate)]

\* mutant: the plate verified last is not set apart
is_plate_verifiedAgain(self) ==
    /\ ~(Len(self.verification_buffer) < self.verification_count)
    /\ Cardinality({self.verification_buffer[k] : k \in 1..Len(self.verification_buffer)}) = 1

\* is_plate_verified: the value returned
is_plate_verified(self) ==
    IF Len(self.verification_buffer) < self.verification_count
    THEN FALSE
    ELSE LET unique_plates ==
                 {self.verification_buffer[k] : k \in 1..Len(self.verification_buffer)}
         IN  /\ Cardinality(unique_plates) = 1
             /\ (CHOOSE current_plate \in unique_plates : TRUE) # self.last_verified_plate

\* mutant: the cooldown counted as passed from the bound on
CooldownPassedInclusive(self, current_time) ==
    (current_time - self.last_scan_time) >= self.scan_cooldown

\* line 74
CooldownPassed(self, current_time) ==
    (current_time - self.last_scan_time) > self.scan_cooldown

\* should_process_frame: the value returned
should_process_frame(self, theSensor, current_time) ==
    IF ~self.use_ultrasonic \/ self.ultrasonic_sensor = None
    THEN TRUE
    ELSE /\ is_object_detected(theSensor, self.ultrasonic_threshold)
         /\ CooldownPassed(self, current_time)

\* the clock's reading when the controller is built: far above the cooldown
StartTime == 100

\* no controller in use: one built of the default configuration
GateIdle ==
    /\ gate = GateController(DefaultConfig, FALSE)
    /\ sensor = None
    /\ clock = StartTime
    /\ updates = <<>>
    /\ trueTimes = <<>>
    /\ plateRead = ""
    /\ returned = None

\* PlateRecognizer.__init__ (plate_recodnition.py lines 18-25); steps lists
\* the detection steps the last recognize_plate call ran
PlateRecognizer == [is_initialized |-> FALSE, steps |-> <<>>]

RecognizerIdle == recognizer = PlateRecognizer

\* main.py, process_video_stream before its first frame: the number of
\* frames read, what the last frame's recognition and verification answered,
\* and the plates for which open_gate was called
VideoStream == [frames |-> 0, success |-> FALSE, verified |-> FALSE, opened |-> <<>>]

StationIdle == station = VideoStream

\* main3.py, PlateRecognitionSystem.__init__ (lines 257-276) and the threads
\* it starts later.  Times are in milliseconds.  gate_close_timer is None or
\* the state of the Thread object it holds, close_at the time its sleep
\* ends, closing whether it holds gate_action_lock and runs the motor, and
\* closed_at the time the motor ends; opening tells whether the thread of
\* _open_gate_and_schedule_close runs and opened_at when its motor ends;
\* waiting holds the plate and the time of a handle_plate_detection that
\* waits for gate_action_lock; running, raised and branch tell whether the
\* loop of run() goes on, what exception ended it, and which branch the last
\* handle_plate_detection took
PlateRecognitionSystem ==
    [is_gate_open |-> FALSE, last_detection_time |-> 0, gate_close_timer |-> None,
     close_at |-> 0, closing |-> FALSE, closed_at |-> 0, opening |-> FALSE,
     opened_at |-> 0, waiting |-> <<>>, running |-> TRUE, raised |-> None,
     branch |-> None]

SystemIdle == system = PlateRecognitionSystem

\* UltrasonicSensor.__init__, lines 39-40, and the threads start_monitoring
\* makes later: threads[t] is where thread t stands in monitor_distance
\* ("while", "measure", "write", "sleep"), "unstarted" or "dead";
\* monitor_thread is the number of the thread the attribute holds, 0 for
\* None; caller is where the thread that calls the sensor's methods stands
Monitoring ==
    [is_running |-> FALSE, monitor_thread |-> 0, threads |-> <<>>, caller |-> "idle"]

\* start_monitoring, lines 98-104: the flag is set, the thread is made and
\* started
start_monitoring(self) ==
    IF ~self.is_running
    THEN [self EXCEPT !.is_running = TRUE,
                      !.threads = Append(@, "while"),
                      !.monitor_thread = Len(self.threads) + 1]
    ELSE self

\* start_monitoring when line 104, Thread.start, raises (RuntimeError: can't
\* start new thread): the flag is set and the thread is made, not started
start_monitoringRaises(self) ==
    [self EXCEPT !.is_running = TRUE,
                 !.threads = Append(@, "unstarted"),
                 !.monitor_thread = Len(self.threads) + 1]

MonitorIdle == monitor = Monitoring

\* the host programs have built their objects and called nothing
HostIdle ==
    /\ RecognizerIdle
    /\ verifiedLog = <<>>
    /\ StationIdle
    /\ SystemIdle
    /\ MonitorIdle

-----------------------------------------------------------------------------
(* SpecFilter: the candidate filter applied to one traced contour.          *)

FilterAreas == {80, 90, 99, 100, 101, 144}
FilterWidths == {2, 3, 4, 9, 10, 11, 12}
FilterHeights == {8, 9, 11, 12, 16, 36, 40, 41}

\* traced contours: the contour's area is at most its bounding box's
FilterContours ==
    {c \in {Contour(1, 0, 0, w, h, a, "") :
                w \in FilterWidths, h \in FilterHeights, a \in FilterAreas} :
        c.fltArea <= c.intRectWidth * c.intRectHeight}

\* configurations: the code's own, and each threshold in a tighter setting
ThresholdTuples ==
    [minArea : {80, MIN_CONTOUR_AREA}, minW : {MIN_PIXEL_WIDTH, 3},
     minH : {MIN_PIXEL_HEIGHT, 9},
     minAspect : {MIN_ASPECT_RATIO, [n |-> 1, d |-> 3]},
     maxAspect : {MAX_ASPECT_RATIO, [n |-> 3, d |-> 4]}]

InitFilter ==
    /\ pc = "filter"
    /\ candidate \in FilterContours
    /\ thresholds \in ThresholdTuples
    /\ accepted = FALSE
    /\ chars = <<>>
    /\ matching = <<>>
    /\ groups = <<>>
    /\ plates = <<>>
    /\ contoursIsTuple = FALSE
    /\ PipelineIdle
    /\ HostIdle
    /\ GateIdle

CheckIfContourIsValidChar ==
    /\ pc = "filter"
    /\ accepted' = ValidCharUnder(candidate, thresholds)
    /\ pc' = "filtered"
    /\ UNCHANGED <<candidate, thresholds, chars, matching, groups, plates, contoursIsTuple, extras>>

NextFilter == CheckIfContourIsValidChar

SpecFilter == InitFilter /\ [][NextFilter]_vars

\* p <= q for fractions
FracLeq(p, q) == p.n * q.d <= q.n * p.d

\* C8 as claimed: under the code's thresholds a contour is accepted exactly
\* when area >= MIN_AREA, width >= MIN_WIDTH, height >= MIN_HEIGHT and
\* MIN_ASPECT <= width/height <= MAX_ASPECT, all bounds inclusive.
C8_FilterInclusive ==
    (pc = "filtered" /\ thresholds = CodeThresholds) =>
        (accepted <=>
            /\ candidate.fltArea >= MIN_CONTOUR_AREA
            /\ candidate.intRectWidth >= MIN_PIXEL_WIDTH
            /\ candidate.intRectHeight >= MIN_PIXEL_HEIGHT
            /\ MIN_ASPECT_RATIO.n * candidate.intRectHeight
                 <= candidate.intRectWidth * MIN_ASPECT_RATIO.d
            /\ candidate.intRectWidth * MAX_ASPECT_RATIO.d
                 <= MAX_ASPECT_RATIO.n * candidate.intRectHeight)

\* the threshold tuples that are th with exactly one threshold tightened
Tightenings(th) ==
    {t \in ThresholdTuples :
        \/ t = [th EXCEPT !.minArea = t.minArea] /\ t.minArea > th.minArea
        \/ t = [th EXCEPT !.minW = t.minW] /\ t.minW > th.minW
        \/ t = [th EXCEPT !.minH = t.minH] /\ t.minH > th.minH
        \/ t = [th EXCEPT !.minAspect = t.minAspect]
             /\ FracLeq(th.minAspect, t.minAspect) /\ t.minAspect # th.minAspect
        \/ t = [th EXCEPT !.maxAspect = t.maxAspect]
             /\ FracLeq(t.maxAspect, th.maxAspect) /\ t.maxAspect # th.maxAspect}

\* C9: filter monotonicity: a contour that passes under a tuple with one
\* threshold tightened also passes under the original tuple.
C9_FilterMonotone ==
    pc = "filtered" =>
        \A t \in Tightenings(thresholds) :
            ValidCharUnder(candidate, t) => accepted

\* a contour accepted under the original tuple that one tightening still
\* accepts and another tightening rejects
C9_Witness ==
    /\ pc = "filtered"
    /\ accepted
    /\ \E t \in Tightenings(thresholds) : ValidCharUnder(candidate, t)
    /\ \E t \in Tightenings(thresholds) : ~ValidCharUnder(candidate, t)


-----------------------------------------------------------------------------
(* SpecMatch: findListOfMatchingChars applied to a reference candidate and  *)
(* a list that holds it.                                                    *)

\* a traced contour that passed the scene filter: its area is at most its
\* bounding box's
IsSceneChar(c) ==
    /\ checkIfContourIsValidChar(c)
    /\ c.fltArea <= c.intRectWidth * c.intRectHeight

\* reference candidates
MatchRefs ==
    {Contour(1, 0, 0, 10, 20, 120, ""), Contour(1, 100, 0, 12, 22, 220, "")}

\* the other candidates: values on and next to each tolerance of the two
\* references
MatchOthers ==
    {c \in {Contour(2, x, y, w, h, a, "") :
                x \in {0, 100, 599, 600, 1199, 1200}, y \in {0, 21, 22},
                w \in {10, 17, 18, 21, 22}, h \in {16, 17, 20, 23, 24, 26, 27},
                a \in {110, 111, 120, 179, 180, 329, 330}} :
        IsSceneChar(c)}

MatchThirds ==
    {Contour(3, 50, 0, 10, 20, 120, ""), Contour(3, 50, 0, 10, 30, 120, ""),
     Contour(3, 0, 50, 10, 20, 120, "")}

InitMatch ==
    /\ pc = "match"
    /\ \E ref \in MatchRefs, other \in MatchOthers :
          chars \in {<<ref, other>>, <<other, ref>>}
                    \cup {<<other, ref, third>> : third \in MatchThirds}
    /\ candidate \in {chars[k] : k \in 1..Len(chars)}
    /\ thresholds = CodeThresholds
    /\ accepted = FALSE
    /\ matching = <<>>
    /\ groups = <<>>
    /\ plates = <<>>
    /\ contoursIsTuple = FALSE
    /\ PipelineIdle
    /\ HostIdle
    /\ GateIdle

FindListOfMatchingChars ==
    /\ pc = "match"
    /\ matching' = findListOfMatchingChars(candidate, chars)
    /\ pc' = "matched"
    /\ UNCHANGED <<candidate, thresholds, accepted, chars, groups, plates, contoursIsTuple, extras>>

NextMatch == FindListOfMatchingChars

SpecMatch == InitMatch /\ [][NextMatch]_vars

\* the five conditions of the claim for b against the reference a
C6_Similar(a, b) ==
    LET dx == Abs(a.intRectX - b.intRectX)
        dy == Abs(a.intRectY - b.intRectY)
    IN  /\ dx * dx + dy * dy < 25 * a.fltArea * a.fltArea
        /\ dx # 0 /\ dy * 1000000 < dx * 212557
        /\ 2 * Abs(b.fltArea - a.fltArea) < a.fltArea
        /\ 5 * Abs(b.intRectWidth - a.intRectWidth) < 4 * a.intRectWidth
        /\ 5 * Abs(b.intRectHeight - a.intRectHeight) < a.intRectHeight

\* C6: findListOfMatchingChars(a, L) returns exactly the candidates b of L,
\* other than a itself, that satisfy all five strict conditions with a as
\* the reference, each of them once.
C6_MatchExact ==
    pc = "matched" =>
        /\ \A k \in 1..Len(chars) :
              InList(chars[k], matching) <=>
                  (chars[k].id # candidate.id /\ C6_Similar(candidate, chars[k]))
        /\ \A k \in 1..Len(matching) : InList(matching[k], chars)
        /\ \A k, l \in 1..Len(matching) : k # l => matching[k].id # matching[l].id

\* a candidate sitting exactly on the height tolerance is left out while
\* another member of the same list is returned
C6_Witness ==
    /\ pc = "matched"
    /\ Len(chars) = 3
    /\ candidate = chars[2]
    /\ Len(matching) = 1
    /\ 5 * Abs(chars[1].intRectHeight - candidate.intRectHeight) = candidate.intRectHeight
    /\ ~InList(chars[1], matching)

\* a candidate and a smaller one beside it
AsymLarge == Contour(1, 100, 0, 12, 22, 220, "")
AsymSmall == Contour(2, 0, 0, 10, 20, 120, "")

\* C7: the similarity test is asymmetric: for the two candidates AsymLarge
\* and AsymSmall, of different areas, the smaller is the match of the larger
\* in the list of the two, and the larger is not a match of the smaller.
C7_Asymmetric ==
    (pc = "matched" /\ chars = <<AsymLarge, AsymSmall>>) =>
        /\ candidate = AsymLarge => matching = <<AsymSmall>>
        /\ candidate = AsymSmall => matching = <<>>
        /\ AsymLarge.fltArea # AsymSmall.fltArea

\* the smaller candidate was the reference and the larger one, whose own
\* match list holds the smaller, was not returned
C7_Witness ==
    /\ pc = "matched"
    /\ chars = <<AsymLarge, AsymSmall>>
    /\ candidate = AsymSmall
    /\ matching = <<>>
    /\ findListOfMatchingChars(AsymLarge, chars) = <<AsymSmall>>

-----------------------------------------------------------------------------
(* Spec: the scene pass of DetectPlates.detectPlatesInScene: the traced     *)
(* contours are filtered one by one into the list of possible characters,   *)
(* and the list is partitioned into groups of matching characters.          *)

MaxContours == 6

\* contours the binarization service traces in a scene: three characters of
\* one height, two taller ones, and a speck of noise
SceneContours ==
    {Contour(0, 0, 0, 10, 20, 150, ""), Contour(0, 12, 0, 10, 20, 150, ""),
     Contour(0, 24, 2, 10, 20, 150, ""), Contour(0, 36, 0, 10, 24, 150, ""),
     Contour(0, 48, 0, 10, 28, 150, ""), Contour(0, 5, 5, 3, 3, 4, "")}

Init ==
    /\ pc = "scan"
    /\ chars = <<>>
    /\ candidate = NoChar
    /\ thresholds = CodeThresholds
    /\ accepted = FALSE
    /\ matching = <<>>
    /\ groups = <<>>
    /\ plates = <<>>
    /\ contoursIsTuple = FALSE
    /\ PipelineIdle
    /\ HostIdle
    /\ GateIdle

\* findPossibleCharsInScene, one turn of the loop of lines 68-77: a new
\* ContourWithData object is made of the contour and kept if it is valid
FindPossibleChar ==
    /\ pc = "scan"
    /\ Len(chars) < MaxContours
    /\ \E contour \in SceneContours :
          LET possibleChar == [contour EXCEPT !.id = Len(chars) + 1]
          IN  chars' = IF checkIfContourIsValidChar(possibleChar)
                       THEN Append(chars, possibleChar)
                       ELSE chars
    /\ UNCHANGED <<pc, candidate, thresholds, accepted, matching, groups, plates, contoursIsTuple, extras>>

\* detectPlatesInScene line 42
FindListOfListsOfMatchingChars ==
    /\ pc = "scan"
    /\ groups' = findListOfListsOfMatchingChars(chars)
    /\ pc' = "partitioned"
    /\ UNCHANGED <<candidate, thresholds, accepted, chars, matching, plates, contoursIsTuple, extras>>

Next == FindPossibleChar \/ FindListOfListsOfMatchingChars

Spec == Init /\ [][Next]_vars

\* the positions (group, member) of the returned groups
GroupPositions == {p \in (1..Len(groups)) \X (1..MaxContours + 1) : p[2] <= Len(groups[p[1]])}

InSomeGroup(c) == \E i \in 1..Len(groups) : InList(c, groups[i])

\* the candidates of the input that are in no returned group
Ungrouped ==
    LET Out(c) == ~InSomeGroup(c)
    IN  SelectSeq(chars, Out)

\* C2: the returned groups are pairwise disjoint and no group holds a
\* candidate twice: no candidate (by identity) is at two positions.
C2_GroupsDisjoint ==
    pc = "partitioned" =>
        \A p, q \in GroupPositions :
            p # q => groups[p[1]][p[2]].id # groups[q[1]][q[2]].id

\* two groups are returned
C2_Witness ==
    /\ pc = "partitioned"
    /\ Len(groups) >= 2

\* C3 as claimed: every candidate of the input is in some returned group or
\* matches fewer than MIN_NUMBER_OF_MATCHING_CHARS - 1 other candidates of
\* the input.
C3_CompleteOverInput ==
    pc = "partitioned" =>
        \A k \in 1..Len(chars) :
            \/ InSomeGroup(chars[k])
            \/ Len(findListOfMatchingChars(chars[k], chars)) < MIN_NUMBER_OF_MATCHING_CHARS - 1

\* C3 amended: every candidate of the input is in some returned group or
\* matches fewer than MIN_NUMBER_OF_MATCHING_CHARS - 1 of the other
\* candidates that are in no returned group; and every member of a group is
\* a candidate of the input.
C3_CompleteOverUngrouped ==
    pc = "partitioned" =>
        /\ \A k \in 1..Len(chars) :
              \/ InSomeGroup(chars[k])
              \/ Len(findListOfMatchingChars(chars[k], Ungrouped)) < MIN_NUMBER_OF_MATCHING_CHARS - 1
        /\ \A p \in GroupPositions : InList(groups[p[1]][p[2]], chars)

\* a group is returned, and a candidate left out of it matches two or more
\* candidates of the input, all but at most one of them inside the group
C3_Witness ==
    /\ pc = "partitioned"
    /\ Len(groups) >= 1
    /\ \E k \in 1..Len(chars) :
          /\ ~InSomeGroup(chars[k])
          /\ Len(findListOfMatchingChars(chars[k], chars)) >= MIN_NUMBER_OF_MATCHING_CHARS - 1

\* C4: every returned group has at least MIN_NUMBER_OF_MATCHING_CHARS members.
C4_GroupsBigEnough ==
    pc = "partitioned" =>
        \A i \in 1..Len(groups) : Len(groups[i]) >= MIN_NUMBER_OF_MATCHING_CHARS

\* a group emitted by the recursive call has exactly the minimum size
C4_Witness ==
    /\ pc = "partitioned"
    /\ Len(groups) >= 2
    /\ Len(groups[2]) = MIN_NUMBER_OF_MATCHING_CHARS

\* C5 as claimed: a candidate that as the reference matches fewer than
\* MIN_NUMBER_OF_MATCHING_CHARS - 1 other candidates of the input is a member
\* of no returned group.
C5_FewMatchesDropped ==
    pc = "partitioned" =>
        \A k \in 1..Len(chars) :
            Len(findListOfMatchingChars(chars[k], chars)) < MIN_NUMBER_OF_MATCHING_CHARS - 1
                => ~InSomeGroup(chars[k])

\* C5 amended: such a candidate is never the seed of a returned group (the
\* seed is the group's last member), and it is a member of a returned group
\* only if the seed of that group matches it.
C5_FewMatchesNeverSeed ==
    pc = "partitioned" =>
        \A k \in 1..Len(chars) :
            Len(findListOfMatchingChars(chars[k], chars)) < MIN_NUMBER_OF_MATCHING_CHARS - 1
                => \A i \in 1..Len(groups) :
                       InList(chars[k], groups[i]) =>
                           LET seed == groups[i][Len(groups[i])]
                           IN  /\ seed.id # chars[k].id
                               /\ MatchesChar(seed, chars[k])

\* a candidate that matches no other candidate is a member of a group
C5_Witness ==
    /\ pc = "partitioned"
    /\ \E k \in 1..Len(chars) :
          /\ findListOfMatchingChars(chars[k], chars) = <<>>
          /\ InSomeGroup(chars[k])


-----------------------------------------------------------------------------
(* SpecOverlap: removeInnerOverlappingChars applied to a group that line    *)
(* 115 has sorted left to right.                                            *)

MaxGroup == 4

\* bounding boxes: a box, a box strictly inside it, a box strictly inside
\* that one, two boxes inside the first that share one of its sides, and a
\* box apart from all of them
OverlapBoxes ==
    {Contour(0, 0, 0, 30, 40, 900, ""), Contour(0, 4, 4, 22, 32, 500, ""),
     Contour(0, 8, 8, 14, 24, 250, ""), Contour(0, 0, 4, 22, 32, 500, ""),
     Contour(0, 4, 4, 26, 32, 600, ""), Contour(0, 40, 0, 30, 40, 900, "")}

IsSortedByX(list) ==
    \A k \in 1..(Len(list) - 1) : list[k].intRectX <= list[k + 1].intRectX

\* the groups: lists of boxes, each member its own object, sorted by x
OverlapGroups ==
    {list \in {[k \in 1..Len(boxes) |-> [boxes[k] EXCEPT !.id = k]] :
                   boxes \in UNION {[1..n -> OverlapBoxes] : n \in 0..MaxGroup}} :
        IsSortedByX(list)}

InitOverlap ==
    /\ pc = "group"
    /\ chars \in OverlapGroups
    /\ candidate = NoChar
    /\ thresholds = CodeThresholds
    /\ accepted = FALSE
    /\ matching = <<>>
    /\ groups = <<>>
    /\ plates = <<>>
    /\ contoursIsTuple = FALSE
    /\ PipelineIdle
    /\ HostIdle
    /\ GateIdle

RemoveInnerOverlappingChars ==
    /\ pc = "group"
    /\ matching' = removeInnerOverlappingChars(chars)
    /\ pc' = "resolved"
    /\ UNCHANGED <<candidate, thresholds, accepted, chars, groups, plates, contoursIsTuple, extras>>

\* removeInnerOverlappingChars applied to the list it returned; the second
\* result is kept as the only member of resolvedGroups
RemoveInnerOverlappingCharsAgain ==
    /\ pc = "resolved"
    /\ resolvedGroups' = <<removeInnerOverlappingChars(matching)>>
    /\ pc' = "resolvedTwice"
    /\ UNCHANGED <<candidate, thresholds, accepted, chars, matching, groups, plates,
                   contoursIsTuple, rrLocations, strChars, gate, sensor, clock, updates,
                   trueTimes, plateRead, returned, hostVars>>

NextOverlap == RemoveInnerOverlappingChars \/ RemoveInnerOverlappingCharsAgain

SpecOverlap == InitOverlap /\ [][NextOverlap]_vars

\* y's bounding box strictly contains x's on all four sides
C10_StrictlyContains(y, x) ==
    /\ y.intRectX < x.intRectX
    /\ y.intRectY < x.intRectY
    /\ y.intRectX + y.intRectWidth > x.intRectX + x.intRectWidth
    /\ y.intRectY + y.intRectHeight > x.intRectY + x.intRectHeight

\* the positions of the group whose member no other member strictly contains
C10_Survivors ==
    {k \in 1..Len(chars) :
        ~\E l \in 1..Len(chars) : l # k /\ C10_StrictlyContains(chars[l], chars[k])}

\* C10: removeInnerOverlappingChars(group) is exactly the subsequence of the
\* group, in the group's order, of the members that no other member
\* strictly contains on all four sides.
C10_ResolveExact ==
    pc = "resolved" =>
        /\ Len(matching) = Cardinality(C10_Survivors)
        /\ \A k \in C10_Survivors :
              matching[Cardinality({l \in C10_Survivors : l <= k})] = chars[k]

\* a group of nested boxes: one member is removed, and a member inside
\* another member but sharing one of its sides survives
C10_Witness ==
    /\ pc = "resolved"
    /\ Len(chars) >= 3
    /\ Len(matching) = Len(chars) - 1
    /\ \E k \in C10_Survivors, l \in 1..Len(chars) :
          /\ l # k
          /\ IsInsideOrTouching(chars[k], chars[l])
          /\ chars[k].intRectWidth < chars[l].intRectWidth

\* C11: overlap resolution is idempotent: removeInnerOverlappingChars applied
\* to its own result returns that result, member for member.
C11_ResolveIdempotent ==
    pc = "resolvedTwice" => resolvedGroups = <<matching>>

\* a chain of three nested boxes, of which only the outermost is left
C11_Witness ==
    /\ pc = "resolvedTwice"
    /\ \E k, l, m \in 1..Len(chars) :
          /\ IsInside(chars[k], chars[l])
          /\ IsInside(chars[l], chars[m])
          /\ ~InList(chars[k], matching)
          /\ ~InList(chars[l], matching)
          /\ InList(chars[m], matching)
    /\ resolvedGroups = <<matching>>

-----------------------------------------------------------------------------
(* SpecChars: detectCharsInPlates on a list of possible plates.             *)

MaxPlates == 2

\* contours traced in a plate crop: three characters of one size and a speck
CropContours ==
    {Contour(1, 4, 4, 10, 20, 150, "A"), Contour(2, 18, 4, 10, 20, 150, "B"),
     Contour(3, 32, 5, 10, 20, 150, "C"), Contour(4, 46, 9, 3, 4, 9, "x")}

\* the crops: the lists of distinct contours, in any order of tracing
PlateCrops ==
    {crop \in UNION {[1..n -> CropContours] : n \in 0..Cardinality(CropContours)} :
        \A k, l \in 1..Len(crop) : k # l => crop[k].id # crop[l].id}

InitChars ==
    /\ pc = "chars"
    /\ plates \in UNION {[1..n -> [crop : PlateCrops, strChars : {<<>>}]] : n \in 0..MaxPlates}
    /\ contoursIsTuple \in BOOLEAN
    /\ candidate = NoChar
    /\ thresholds = CodeThresholds
    /\ accepted = FALSE
    /\ chars = <<>>
    /\ matching = <<>>
    /\ groups = <<>>
    /\ PipelineIdle
    /\ HostIdle
    /\ GateIdle

\* lines 80-81: an empty list is returned as it is
DetectCharsInNoPlates ==
    /\ pc = "chars"
    /\ Len(plates) = 0
    /\ pc' = "returned"
    /\ UNCHANGED <<candidate, thresholds, accepted, chars, matching, groups, plates, contoursIsTuple, extras>>

\* lines 83-132 when cv2.findContours answers a list
DetectCharsInPlates ==
    /\ pc = "chars"
    /\ Len(plates) > 0
    /\ ~contoursIsTuple
    /\ plates' = [i \in 1..Len(plates) |-> DetectCharsInPlate(plates[i])]
    /\ pc' = "returned"
    /\ UNCHANGED <<candidate, thresholds, accepted, chars, matching, groups, contoursIsTuple, extras>>

\* lines 83-97 when cv2.findContours answers a tuple: del contours[:] on the
\* first plate raises TypeError, which detectCharsInPlates does not catch
DetectCharsInPlatesRaises ==
    /\ pc = "chars"
    /\ Len(plates) > 0
    /\ contoursIsTuple
    /\ pc' = "raised"
    /\ UNCHANGED <<candidate, thresholds, accepted, chars, matching, groups, plates, contoursIsTuple, extras>>

NextChars == DetectCharsInNoPlates \/ DetectCharsInPlates \/ DetectCharsInPlatesRaises

SpecChars == InitChars /\ [][NextChars]_vars

\* the valid contours of a plate's crop, of which the claims speak
C1_ValidContours(crop) ==
    LET Valid(c) == checkIfContourIsValid(c)
    IN  SelectSeq(crop, Valid)

\* C1 as claimed: after detectCharsInPlates every plate's strChars is the
\* classifier's characters, left to right, of the longest overlap-resolved
\* group of the crop's valid contours; a plate whose valid contours hold a
\* group of MIN_NUMBER_OF_MATCHING_CHARS or more ends with strChars not empty.
C1_CharsOfLongestGroup ==
    pc \in {"returned", "raised"} =>
        \A i \in 1..Len(plates) :
            LET contours == C1_ValidContours(plates[i].crop)
            IN  /\ plates[i] = CharsOfContours([plates[i] EXCEPT !.strChars = <<>>], contours)
                /\ findListOfListsOfMatchingChars(contours) # <<>> => plates[i].strChars # <<>>


-----------------------------------------------------------------------------
(* SpecScene: the recognition pipeline of PlateRecognizer.recognize_plate   *)
(* on the possible characters of a scene: the list is partitioned           *)
(* (detectPlatesInScene line 42), a plate is extracted of every group       *)
(* (lines 44-48) and detectCharsInPlates is given the plates.  Beside the   *)
(* pipeline, the groups are sorted and overlap-resolved as lines 114-116 of *)
(* detectCharsInPlates do.                                                  *)

MaxSceneChars == 5

\* possible characters of a scene: five characters in a row, of nearly one
\* height and area, and three larger ones of which the second lies inside
\* the first
ClusterChars ==
    {Contour(1, 0, 0, 10, 20, 150, ""), Contour(2, 20, 2, 10, 20, 150, ""),
     Contour(3, 40, 0, 10, 20, 150, ""), Contour(4, 53, 1, 10, 21, 155, ""),
     Contour(5, 67, 0, 10, 22, 160, ""), Contour(6, 100, 0, 20, 40, 400, ""),
     Contour(7, 106, 1, 12, 38, 300, ""), Contour(8, 130, 0, 20, 40, 400, "")}

\* the lists of distinct possible characters, in any order
SceneLists ==
    {list \in UNION {[1..n -> ClusterChars] : n \in 0..MaxSceneChars} :
        \A k, l \in 1..Len(list) : k # l => list[k].id # list[l].id}

\* what cv2.findContours traces in the image of an extracted plate
ExtractedCrops ==
    {<<>>,
     <<Contour(1, 4, 4, 10, 20, 150, "A"), Contour(2, 18, 4, 10, 20, 150, "B"),
       Contour(3, 32, 5, 10, 20, 150, "C")>>}

InitScene ==
    /\ pc = "scan"
    /\ chars \in SceneLists
    /\ contoursIsTuple \in BOOLEAN
    /\ candidate = NoChar
    /\ thresholds = CodeThresholds
    /\ accepted = FALSE
    /\ matching = <<>>
    /\ groups = <<>>
    /\ plates = <<>>
    /\ PipelineIdle
    /\ HostIdle
    /\ GateIdle

\* detectPlatesInScene lines 44-50: a plate of every group, in the groups'
\* order, handed to detectCharsInPlates; extractPlate sorts the group it is
\* given in place (line 95)
ExtractPlates ==
    /\ pc = "partitioned"
    /\ rrLocations' = [i \in 1..Len(groups) |-> extractPlate(groups[i])]
    /\ groups' = [i \in 1..Len(groups) |-> SortByX(groups[i])]
    /\ plates' \in [1..Len(groups) -> [crop : ExtractedCrops, strChars : {<<>>}]]
    /\ pc' = "chars"
    /\ UNCHANGED <<candidate, thresholds, accepted, chars, matching,
                   contoursIsTuple, resolvedGroups, strChars, gate, sensor, clock,
                   updates, trueTimes, plateRead, returned, hostVars>>

\* detectCharsInPlates lines 114-116 on the groups of the partition
SortAndRemoveInnerOverlappingChars ==
    /\ pc = "partitioned"
    /\ resolvedGroups' = ResolveGroups(groups)
    /\ pc' = "groupsResolved"
    /\ UNCHANGED <<candidate, thresholds, accepted, chars, matching, groups, plates,
                   contoursIsTuple, rrLocations, strChars, gate, sensor, clock,
                   updates, trueTimes, plateRead, returned, hostVars>>

NextScene ==
    \/ FindListOfListsOfMatchingChars
    \/ ExtractPlates
    \/ SortAndRemoveInnerOverlappingChars
    \/ DetectCharsInNoPlates
    \/ DetectCharsInPlates
    \/ DetectCharsInPlatesRaises

SpecScene == InitScene /\ [][NextScene]_vars

\* the member of a group with the least bounding-box x, the first of them
\* in the group's order
Leftmost(list) ==
    list[CHOOSE k \in 1..Len(list) :
             /\ \A l \in 1..Len(list) : list[k].intRectX <= list[l].intRectX
             /\ \A l \in 1..(k - 1) : list[k].intRectX < list[l].intRectX]

\* the member with the greatest bounding-box x, the last of them in the
\* group's order
Rightmost(list) ==
    list[CHOOSE k \in 1..Len(list) :
             /\ \A l \in 1..Len(list) : list[l].intRectX <= list[k].intRectX
             /\ \A l \in (k + 1)..Len(list) : list[l].intRectX < list[k].intRectX]

\* the sum of the members' heights
C12_TotalHeight(list) ==
    LET RECURSIVE Sum(_)
        Sum(k) == IF k = 0 THEN 0 ELSE list[k].intRectHeight + Sum(k - 1)
    IN  Sum(Len(list))

\* rightmost.x + rightmost.width - leftmost.x
C12_Extent(list) ==
    Rightmost(list).intRectX + Rightmost(list).intRectWidth - Leftmost(list).intRectX

\* the plates have been extracted
Extracted == pc \in {"chars", "returned", "raised"}

\* C12 as claimed: the plate's width equals the extent of its group times
\* 1.3 and its height equals the mean height of the members times 1.5.
C12_SizeIsPaddedExtent ==
    Extracted =>
        /\ Len(rrLocations) = Len(groups)
        /\ \A i \in 1..Len(groups) :
              /\ rrLocations[i].intPlateWidth * 10 = C12_Extent(groups[i]) * 13
              /\ rrLocations[i].intPlateHeight * 2 * Len(groups[i])
                   = C12_TotalHeight(groups[i]) * 3

\* what extractPlate reports instead: the extent of the group times 1.3 and
\* the mean height of the members times 1.5, each cut down to a whole number
SizeIsPaddedExtentCut ==
    Extracted =>
        /\ Len(rrLocations) = Len(groups)
        /\ \A i \in 1..Len(groups) :
              LET w == rrLocations[i].intPlateWidth
                  h == rrLocations[i].intPlateHeight
                  n == Len(groups[i])
              IN  /\ w * 10 <= C12_Extent(groups[i]) * 13
                  /\ C12_Extent(groups[i]) * 13 < (w + 1) * 10
                  /\ h * 2 * n <= C12_TotalHeight(groups[i]) * 3
                  /\ C12_TotalHeight(groups[i]) * 3 < (h + 1) * 2 * n

\* a plate of four characters given in an order that is not left to right:
\* the extent 63 makes the width 81, not 81.9, and the mean height 20.25
\* makes the height 30, not 30.375
SizeIsCutSomewhere ==
    /\ Extracted
    /\ Len(groups) = 1
    /\ Len(groups[1]) = 4
    /\ groups[1] # SortByX(groups[1])
    /\ C12_Extent(groups[1]) = 63
    /\ rrLocations[1].intPlateWidth = 81
    /\ C12_TotalHeight(groups[1]) = 81
    /\ rrLocations[1].intPlateHeight = 30

\* C13: the plate's angle is atan(opp / hyp) in degrees with opp the
\* difference of the bounding-box y of the rightmost and the leftmost member
\* and hyp the distance between the two; it is exactly 0 when the two have
\* the same y, whatever the members between them.
C13_AngleOfEnds ==
    Extracted =>
        \A i \in 1..Len(groups) :
            LET first == Leftmost(groups[i])
                last == Rightmost(groups[i])
                dx == last.intRectX - first.intRectX
                dy == last.intRectY - first.intRectY
            IN  /\ rrLocations[i].fltCorrectionAngle
                     = [opp |-> dy, hypSquared |-> dx * dx + dy * dy]
                /\ dx * dx + dy * dy > 0
                /\ first.intRectY = last.intRectY
                     => rrLocations[i].fltCorrectionAngle.opp = 0

\* a group whose end members share their y and whose middle member is lower
C13_Witness ==
    /\ Extracted
    /\ Len(groups) >= 1
    /\ Len(groups[1]) = 3
    /\ Leftmost(groups[1]).intRectY = Rightmost(groups[1]).intRectY
    /\ \E k \in 1..3 : groups[1][k].intRectY # Leftmost(groups[1]).intRectY
    /\ rrLocations[1].fltCorrectionAngle.opp = 0

\* every candidate of the input matches every other, in both directions
C14_AllMatch ==
    \A k, l \in 1..Len(chars) : k # l => MatchesChar(chars[k], chars[l])

\* no bounding box of the input lies inside another
C14_NoneNested ==
    \A k, l \in 1..Len(chars) : k # l => ~IsInside(chars[k], chars[l])

\* C14: when the input holds three or more candidates that all match one
\* another, the partition returns one group, the group holds every
\* candidate of the input once, and overlap resolution leaves all of them
\* in it when no box is nested in another; whatever the input's order.
C14_OneGroupOfAll ==
    (pc = "groupsResolved" /\ Len(chars) >= 3 /\ C14_AllMatch) =>
        /\ Len(groups) = 1
        /\ Len(groups[1]) = Len(chars)
        /\ \A k \in 1..Len(chars) : InList(chars[k], groups[1])
        /\ C14_NoneNested =>
              /\ Len(resolvedGroups[1]) = Len(chars)
              /\ \A k \in 1..Len(chars) : InList(chars[k], resolvedGroups[1])

\* the five characters in a row, given in an order that is not left to right
C14_Witness ==
    /\ pc = "groupsResolved"
    /\ Len(chars) = 5
    /\ C14_AllMatch
    /\ C14_NoneNested
    /\ chars # SortByX(chars)
    /\ Len(groups) = 1
    /\ Len(resolvedGroups[1]) = 5

\* C15: the partition of an empty list of candidates is an empty list of
\* groups, and detectCharsInPlates given an empty list of plates returns an
\* empty list; neither raises.
C15_EmptyInputs ==
    /\ (pc # "scan" /\ chars = <<>>) => groups = <<>>
    /\ (pc \in {"returned", "raised"} /\ Len(rrLocations) = 0) =>
           (pc = "returned" /\ plates = <<>>)

\* an empty scene went through the whole pipeline, with cv2.findContours
\* answering tuples
C15_Witness ==
    /\ pc = "returned"
    /\ chars = <<>>
    /\ groups = <<>>
    /\ plates = <<>>
    /\ contoursIsTuple


-----------------------------------------------------------------------------
(* SpecPlate: detectCharsInPlates on one possible plate in whose image      *)
(* cv2.findContours traces several clusters of characters.                  *)

MaxClusters == 3

\* the contours of a plate come in clusters that lie too far below one
\* another to match across: three characters; four characters; four larger
\* ones, the second inside the first; three more characters; and a pair
PlateClusters ==
    {<<Contour(2, 14, 0, 10, 20, 150, "B"), Contour(1, 0, 0, 10, 20, 150, "A"),
       Contour(3, 28, 1, 10, 20, 150, "C")>>,
     <<Contour(4, 0, 300, 10, 20, 150, "D"), Contour(6, 28, 300, 10, 20, 150, "F"),
       Contour(5, 14, 300, 10, 20, 150, "E"), Contour(7, 42, 300, 10, 20, 150, "G")>>,
     <<Contour(8, 0, 600, 20, 40, 400, "H"), Contour(9, 6, 601, 12, 38, 300, "I"),
       Contour(10, 30, 600, 20, 40, 400, "J"), Contour(11, 60, 600, 20, 40, 400, "K")>>,
     <<Contour(12, 0, 900, 10, 20, 150, "L"), Contour(13, 14, 900, 10, 20, 150, "M"),
       Contour(14, 28, 900, 10, 20, 150, "N")>>,
     <<Contour(15, 0, 1200, 10, 20, 150, "P"), Contour(16, 14, 1200, 10, 20, 150, "Q")>>}

RECURSIVE Flatten(_)
Flatten(listOfLists) ==
    IF listOfLists = <<>> THEN <<>> ELSE Head(listOfLists) \o Flatten(Tail(listOfLists))

\* what is traced in the plate: up to MaxClusters different clusters, in
\* any order
PlateContourLists ==
    {Flatten(clusters) :
        clusters \in {cs \in UNION {[1..n -> PlateClusters] : n \in 0..MaxClusters} :
                         \A k, l \in 1..Len(cs) : k # l => cs[k] # cs[l]}}

InitPlate ==
    /\ pc = "chars"
    /\ plates \in {<<[crop |-> crop, strChars |-> <<>>]>> : crop \in PlateContourLists}
    /\ contoursIsTuple \in BOOLEAN
    /\ candidate = NoChar
    /\ thresholds = CodeThresholds
    /\ accepted = FALSE
    /\ chars = <<>>
    /\ matching = <<>>
    /\ groups = <<>>
    /\ PipelineIdle
    /\ HostIdle
    /\ GateIdle

NextPlate == DetectCharsInPlates \/ DetectCharsInPlatesRaises

SpecPlate == InitPlate /\ [][NextPlate]_vars

\* C16 as claimed: in a plate whose valid contours form groups, the group
\* whose characters make the plate's string is the first of the groups of
\* the greatest length after sorting and overlap resolution.
C16_FirstLongestGroupClassified ==
    pc \in {"returned", "raised"} =>
        \A p \in 1..Len(plates) :
            LET listOfLists ==
                    ResolveGroups(findListOfListsOfMatchingChars(C1_ValidContours(plates[p].crop)))
            IN  listOfLists # <<>> =>
                    \E i \in 1..Len(listOfLists) :
                        /\ \A j \in 1..Len(listOfLists) :
                              Len(listOfLists[j]) <= Len(listOfLists[i])
                        /\ \A j \in 1..(i - 1) : Len(listOfLists[j]) < Len(listOfLists[i])
                        /\ plates[p].strChars = GlyphsOf(listOfLists[i])

-----------------------------------------------------------------------------
(* SpecRecognize: recognizeCharsInPlate applied to a list of matching       *)
(* characters.                                                              *)

MaxRecognized == 4

\* the characters of a plate and what the classifier answers for each; for
\* one of them it yields nothing
RecognizedChars ==
    {Contour(1, 0, 0, 10, 20, 150, "L"), Contour(2, 14, 0, 10, 20, 150, NoResult),
     Contour(3, 28, 0, 10, 20, 150, "N"), Contour(4, 14, 2, 10, 20, 150, "M"),
     Contour(5, 42, 0, 10, 20, 150, "O")}

\* the lists of distinct characters, in any order
RecognizedLists ==
    {list \in UNION {[1..n -> RecognizedChars] : n \in 0..MaxRecognized} :
        \A k, l \in 1..Len(list) : k # l => list[k].id # list[l].id}

InitRecognize ==
    /\ pc = "group"
    /\ chars \in RecognizedLists
    /\ contoursIsTuple = FALSE
    /\ candidate = NoChar
    /\ thresholds = CodeThresholds
    /\ accepted = FALSE
    /\ matching = <<>>
    /\ groups = <<>>
    /\ plates = <<>>
    /\ PipelineIdle
    /\ HostIdle
    /\ GateIdle

\* lines 237-270: the list is sorted in place (line 245) and the
\* classifier answers a character for every candidate
RecognizeCharsInPlate ==
    /\ pc = "group"
    /\ ~ClassifierRaises(chars)
    /\ chars' = SortByX(chars)
    /\ strChars' = recognizeCharsInPlate(chars)
    /\ pc' = "recognized"
    /\ UNCHANGED <<candidate, thresholds, accepted, matching, groups, plates,
                   contoursIsTuple, resolvedGroups, rrLocations, gate, sensor, clock,
                   updates, trueTimes, plateRead, returned, hostVars>>

\* lines 237-266: the list is sorted in place (line 245), then the
\* classifier yields nothing for a candidate; what line 264 or 266 raises
\* leaves recognizeCharsInPlate and no string is returned
RecognizeCharsInPlateRaises ==
    /\ pc = "group"
    /\ ClassifierRaises(chars)
    /\ chars' = SortByX(chars)
    /\ pc' = "raised"
    /\ UNCHANGED <<candidate, thresholds, accepted, matching, groups, plates,
                   contoursIsTuple, extras>>

NextRecognize == RecognizeCharsInPlate \/ RecognizeCharsInPlateRaises

SpecRecognize == InitRecognize /\ [][NextRecognize]_vars

\* the characters of the list, left to right, without the positions for
\* which the classifier yields nothing
C17_CharsWithoutMisses(list) ==
    LET Hit(c) == c.glyph # NoResult
    IN  GlyphsOf(SelectSeq(SortByX(list), Hit))

\* C17 as claimed: a candidate for which the classifier yields nothing does
\* not abort the plate: recognizeCharsInPlate returns the characters of the
\* other candidates, left to right, with only that position dropped.
C17_MissDropsPosition ==
    pc \in {"recognized", "raised"} =>
        /\ pc = "recognized"
        /\ strChars = C17_CharsWithoutMisses(chars)

-----------------------------------------------------------------------------
(* SpecAccess: a GateController built without sensor, and calls of          *)
(* check_access, update_verification and is_plate_verified in any order.    *)

MaxUpdates == 6

\* the plates that are read
Plates == {"R3944FG", "G1234AB", "X9999XX"}

\* the plates that are read several frames in a row
VerifiedPlates == {"R3944FG", "X9999XX"}

\* configurations: the default lists, a plate on both lists, a guest plate
GateConfigs ==
    {[DefaultConfig EXCEPT !.homeowner_plates = h, !.guest_plates = g] :
        h \in {DefaultConfig.homeowner_plates, <<"R3944FG", "G1234AB">>},
        g \in {DefaultConfig.guest_plates, <<"G1234AB">>}}

\* the recognition pipeline is not part of the specification
VisionIdle ==
    /\ candidate = NoChar
    /\ thresholds = CodeThresholds
    /\ accepted = FALSE
    /\ chars = <<>>
    /\ matching = <<>>
    /\ groups = <<>>
    /\ plates = <<>>
    /\ contoursIsTuple = FALSE
    /\ PipelineIdle
    /\ HostIdle

InitAccess ==
    /\ pc = "built"
    /\ gate \in {GateController(config, FALSE) : config \in GateConfigs}
    /\ sensor = None
    /\ clock = StartTime
    /\ updates = <<>>
    /\ trueTimes = <<>>
    /\ plateRead = ""
    /\ returned = None
    /\ VisionIdle

visionVars ==
    <<candidate, thresholds, accepted, chars, matching, groups, plates, contoursIsTuple,
      resolvedGroups, rrLocations, strChars>>

\* check_access(plate): the result is kept as last_access_result unless the
\* plate is empty
CheckAccess ==
    /\ \E plate \in Plates \cup {""} :
          /\ plateRead' = plate
          /\ returned' = check_access(gate, plate)
          /\ gate' = IF plate = ""
                     THEN gate
                     ELSE [gate EXCEPT !.last_access_result = check_access(gate, plate)]
    /\ pc' = "check_access"
    /\ UNCHANGED <<sensor, clock, updates, trueTimes, visionVars, hostVars>>

\* update_verification(plate)
UpdateVerification ==
    /\ Len(updates) < MaxUpdates
    /\ \E plate \in VerifiedPlates :
          /\ plateRead' = plate
          /\ gate' = update_verification(gate, plate)
          /\ updates' = Append(updates, plate)
    /\ returned' = None
    /\ pc' = "update_verification"
    /\ UNCHANGED <<sensor, clock, trueTimes, visionVars, hostVars>>

\* is_plate_verified(): line 135 records the plate when the answer is True
IsPlateVerified ==
    /\ returned' = is_plate_verified(gate)
    /\ gate' = IF is_plate_verified(gate)
               THEN [gate EXCEPT !.last_verified_plate = gate.verification_buffer[1]]
               ELSE gate
    /\ verifiedLog' = IF is_plate_verified(gate)
                      THEN Append(verifiedLog, gate.verification_buffer[1])
                      ELSE verifiedLog
    /\ pc' = "is_plate_verified"
    /\ UNCHANGED <<sensor, clock, updates, trueTimes, plateRead, visionVars,
                   recognizer, station, system, monitor>>

NextAccess == CheckAccess \/ UpdateVerification \/ IsPlateVerified

SpecAccess == InitAccess /\ [][NextAccess]_vars

\* C18: check_access(plate) grants access exactly when the plate is not
\* empty and is on the homeowner list or on the guest list; the type is
\* error for an empty plate, homeowner for a plate on the homeowner list
\* (also when it is on the guest list too), else guest for a plate on the
\* guest list, else unknown.
C18_AccessByLists ==
    pc = "check_access" =>
        LET home == \E k \in 1..Len(gate.homeowner_plates) : gate.homeowner_plates[k] = plateRead
            guest == \E k \in 1..Len(gate.guest_plates) : gate.guest_plates[k] = plateRead
        IN  /\ returned.access_granted <=> (plateRead # "" /\ (home \/ guest))
            /\ plateRead = "" => returned.type = "error"
            /\ (plateRead # "" /\ home) => returned.type = "homeowner"
            /\ (plateRead # "" /\ ~home /\ guest) => returned.type = "guest"
            /\ (plateRead # "" /\ ~home /\ ~guest) => returned.type = "unknown"

\* a plate on both lists is let in as a homeowner
C18_Witness ==
    /\ pc = "check_access"
    /\ \E k \in 1..Len(gate.homeowner_plates) : gate.homeowner_plates[k] = plateRead
    /\ \E k \in 1..Len(gate.guest_plates) : gate.guest_plates[k] = plateRead
    /\ returned.access_granted
    /\ returned.type = "homeowner"

\* the last n plates passed to update_verification, or all of them
C19_Window(log, n) ==
    IF Len(log) <= n THEN log ELSE SubSeq(log, Len(log) - n + 1, Len(log))

\* C19: after every update_verification the buffer holds the last
\* verification_count plates passed, or all of them while they are fewer;
\* is_plate_verified returns True exactly when verification_count plates or
\* more were passed, the last verification_count of them are one plate and
\* that plate is not last_verified_plate; it then records that plate as
\* last_verified_plate, and else changes nothing.
C19_VerifiedExactly ==
    [][LET n == gate.verification_count
           window == C19_Window(updates, n)
           verified == /\ Len(updates) >= n
                       /\ \A k \in 1..Len(window) : window[k] = window[1]
                       /\ window[1] # gate.last_verified_plate
       IN  /\ pc' = "update_verification" =>
                 gate'.verification_buffer = C19_Window(updates', n)
           /\ pc' = "is_plate_verified" =>
                 /\ returned' = verified
                 /\ verified => gate' = [gate EXCEPT !.last_verified_plate = window[1]]
                 /\ ~verified => gate' = gate
                 /\ \A p \in VerifiedPlates : \A q \in VerifiedPlates \ {p} :
                       /\ updates = <<p, p>> => returned' = FALSE
                       /\ (updates = <<p, p, p>> /\ gate.last_verified_plate = "") =>
                             returned' = TRUE
                       /\ updates = <<p, p, p, q>> => returned' = FALSE]_vars

\* a plate read three times in a row after another one was evicted from
\* the buffer is verified
C19_Witness ==
    /\ pc = "is_plate_verified"
    /\ returned = TRUE
    /\ Len(updates) = 4
    /\ updates[1] # updates[2]
    /\ gate.verification_buffer = <<updates[2], updates[3], updates[4]>>
    /\ gate.last_verified_plate = updates[4]

-----------------------------------------------------------------------------
(* SpecSensor: a GateController, its initialize, the sensor's monitoring    *)
(* thread, the passing of time, and calls of should_process_frame.  pc      *)
(* names the step taken last.                                               *)

MaxElapsed == 6

\* the readings of the sensor, in centimetres
Distances == {5, 15, 16, Inf}

InitSensor ==
    /\ pc = "built"
    /\ gate \in {GateController(DefaultConfig, use) : use \in BOOLEAN}
    /\ sensor = None
    /\ clock = StartTime
    /\ updates = <<>>
    /\ trueTimes = <<>>
    /\ plateRead = ""
    /\ returned = None
    /\ VisionIdle

\* a sensor is in use: line 69
C20_Sensed == gate.use_ultrasonic /\ gate.ultrasonic_sensor # None

\* initialize, lines 56-60: the sensor is built and its monitoring started
InitializeSensor ==
    /\ monitor.caller = "idle"
    /\ gate.use_ultrasonic
    /\ gate.ultrasonic_sensor = None
    /\ gate' = [gate EXCEPT !.ultrasonic_sensor = "UltrasonicSensor"]
    /\ sensor' = UltrasonicSensor
    /\ monitor' = start_monitoring(monitor)
    /\ pc' = "initialized"
    /\ UNCHANGED <<clock, updates, trueTimes, plateRead, returned, visionVars, recognizer,
                   verifiedLog, station, system>>

\* initialize, lines 58 and 61-63: building the sensor raises
InitializeSensorFails ==
    /\ monitor.caller = "idle"
    /\ gate.use_ultrasonic
    /\ gate.ultrasonic_sensor = None
    /\ gate' = [gate EXCEPT !.use_ultrasonic = FALSE]
    /\ pc' = "initialized"
    /\ UNCHANGED <<sensor, clock, updates, trueTimes, plateRead, returned, visionVars, hostVars>>

\* initialize, lines 58-59 and 61-63: the sensor is built and stored, and
\* start_monitoring raises
InitializeStartMonitoringFails ==
    /\ monitor.caller = "idle"
    /\ gate.use_ultrasonic
    /\ gate.ultrasonic_sensor = None
    /\ gate' = [gate EXCEPT !.ultrasonic_sensor = "UltrasonicSensor",
                            !.use_ultrasonic = FALSE]
    /\ sensor' = UltrasonicSensor
    /\ monitor' = start_monitoringRaises(monitor)
    /\ pc' = "initialized"
    /\ UNCHANGED <<clock, updates, trueTimes, plateRead, returned, visionVars, recognizer,
                   verifiedLog, station, system>>

\* initialize of a controller that uses no sensor
InitializeWithoutSensor ==
    /\ monitor.caller = "idle"
    /\ ~gate.use_ultrasonic
    /\ pc' = "initialized"
    /\ UNCHANGED <<gate, sensor, clock, updates, trueTimes, plateRead, returned, visionVars, hostVars>>

monitorFrame ==
    <<gate, clock, updates, trueTimes, plateRead, returned, visionVars, recognizer,
      verifiedLog, station, system>>

\* monitor_distance, line 90: the test of the while loop
MonitorTestsFlag ==
    /\ \E t \in 1..Len(monitor.threads) :
          /\ monitor.threads[t] = "while"
          /\ monitor' = [monitor EXCEPT !.threads[t] =
                            IF monitor.is_running THEN "measure" ELSE "dead"]
    /\ pc' = "monitor_distance"
    /\ UNCHANGED <<sensor, monitorFrame>>

\* monitor_distance, line 91: measure_distance returns
MonitorMeasures ==
    /\ \E t \in 1..Len(monitor.threads) :
          /\ monitor.threads[t] = "measure"
          /\ monitor' = [monitor EXCEPT !.threads[t] = "write"]
    /\ pc' = "monitor_distance"
    /\ UNCHANGED <<sensor, monitorFrame>>

\* monitor_distance, lines 93-94: the shared distance is written
MonitorWrites ==
    /\ \E t \in 1..Len(monitor.threads) :
          /\ monitor.threads[t] = "write"
          /\ monitor' = [monitor EXCEPT !.threads[t] = "sleep"]
    /\ \E new_distance \in Distances : sensor' = [sensor EXCEPT !.distance = new_distance]
    /\ pc' = "monitor_distance"
    /\ UNCHANGED monitorFrame

\* monitor_distance, line 96: the sleep ends
MonitorWakes ==
    /\ \E t \in 1..Len(monitor.threads) :
          /\ monitor.threads[t] = "sleep"
          /\ monitor' = [monitor EXCEPT !.threads[t] = "while"]
    /\ pc' = "monitor_distance"
    /\ UNCHANGED <<sensor, monitorFrame>>

\* a second passes
Tick ==
    /\ clock < StartTime + MaxElapsed
    /\ clock' = clock + 1
    /\ pc' = "tick"
    /\ UNCHANGED <<gate, sensor, updates, trueTimes, plateRead, returned, visionVars, hostVars>>

\* should_process_frame(), lines 69-70: no sensor is in use
ShouldProcessFrameWithoutSensor ==
    /\ monitor.caller = "idle"
    /\ ~C20_Sensed
    /\ returned' = should_process_frame(gate, sensor, clock)
    /\ pc' = "should_process_frame"
    /\ UNCHANGED <<gate, sensor, clock, updates, trueTimes, plateRead, visionVars, hostVars>>

\* should_process_frame(), lines 72-73: the time is read and
\* is_object_detected reads the sensor's distance under its lock; returned
\* holds the two locals of the call
IsObjectDetected ==
    /\ monitor.caller = "idle"
    /\ C20_Sensed
    /\ returned' = [current_time |-> clock,
                    object_detected |-> is_object_detected(sensor, gate.ultrasonic_threshold)]
    /\ monitor' = [monitor EXCEPT !.caller = "should_process_frame"]
    /\ pc' = "is_object_detected"
    /\ UNCHANGED <<gate, sensor, clock, updates, trueTimes, plateRead, visionVars,
                   recognizer, verifiedLog, station, system>>

\* should_process_frame(), lines 74-82, after the sensor's lock was
\* released: line 77 stores the time read at line 72 when the sensor lets
\* the frame through
ShouldProcessFrame ==
    /\ monitor.caller = "should_process_frame"
    /\ LET answer == /\ returned.object_detected
                     /\ CooldownPassed(gate, returned.current_time)
       IN  /\ returned' = answer
           /\ IF answer
              THEN /\ gate' = [gate EXCEPT !.last_scan_time = returned.current_time]
                   /\ trueTimes' = Append(trueTimes, returned.current_time)
              ELSE UNCHANGED <<gate, trueTimes>>
    /\ monitor' = [monitor EXCEPT !.caller = "idle"]
    /\ pc' = "should_process_frame"
    /\ UNCHANGED <<sensor, clock, updates, plateRead, visionVars, recognizer, verifiedLog,
                   station, system>>

NextSensor ==
    \/ InitializeSensor
    \/ InitializeSensorFails
    \/ InitializeStartMonitoringFails
    \/ InitializeWithoutSensor
    \/ MonitorTestsFlag
    \/ MonitorMeasures
    \/ MonitorWrites
    \/ MonitorWakes
    \/ Tick
    \/ IsObjectDetected
    \/ ShouldProcessFrameWithoutSensor
    \/ ShouldProcessFrame

SpecSensor == InitSensor /\ [][NextSensor]_vars

\* C20: without a sensor in use should_process_frame returns True on every
\* call and never stores a time; with a sensor it returns True exactly when
\* the reading the call took is within the threshold and more than
\* scan_cooldown seconds lie between the call and the last call that
\* returned True; last_scan_time is the time of that last call, stored on
\* those calls only, and any two calls that returned True are more than
\* scan_cooldown apart.
C20_CooldownBetweenFrames ==
    /\ [](/\ gate.last_scan_time =
                 IF trueTimes = <<>> THEN 0 ELSE trueTimes[Len(trueTimes)]
          /\ \A k \in 1..(Len(trueTimes) - 1) :
                trueTimes[k + 1] - trueTimes[k] > gate.scan_cooldown
          /\ ~gate.use_ultrasonic => trueTimes = <<>>)
    /\ [][/\ (pc' = "should_process_frame" /\ ~C20_Sensed) =>
                (returned' = TRUE /\ gate' = gate)
          /\ pc' = "is_object_detected" =>
                /\ gate' = gate
                /\ returned'.current_time = clock
                /\ returned'.object_detected =
                      (sensor.distance # Inf /\ sensor.distance <= gate.ultrasonic_threshold)
          /\ (pc' = "should_process_frame" /\ C20_Sensed) =>
                /\ returned' = (/\ returned.object_detected
                                /\ returned.current_time - gate.last_scan_time
                                       > gate.scan_cooldown)
                /\ returned' => gate' = [gate EXCEPT !.last_scan_time = returned.current_time]
                /\ ~returned' => gate' = gate]_vars

\* the sensor lets a second frame through one second after the cooldown;
\* the monitoring thread has stored another reading before the call returned
C20_Witness ==
    /\ pc = "should_process_frame"
    /\ C20_Sensed
    /\ returned = TRUE
    /\ Len(trueTimes) = 2
    /\ trueTimes[2] - trueTimes[1] = gate.scan_cooldown + 1
    /\ sensor.distance = Inf

-----------------------------------------------------------------------------
(* SpecRecognizer: a PlateRecognizer (plate_recodnition.py), its initialize *)
(* and its recognize_plate on the frame of a camera.  A frame is the list   *)
(* of possible characters its scene holds, the contours traced in the image *)
(* of each plate cut from it, and the detection step that raises on it, if  *)
(* one does (a missing module, an OpenCV error).  The scene and the raising *)
(* step are drawn when the behaviour starts.                                *)

MaxFrameChars == 4

\* the steps of recognize_plate, lines 51-60
DetectionSteps == <<"preprocess", "transform", "detectPlatesInScene", "detectCharsInPlates">>

\* lines 62-91 on the plates detectCharsInPlates returned: the first plate
\* of the most characters is the best one
ResultOfPlates(possible_plates) ==
    IF Len(possible_plates) = 0
    THEN [success |-> FALSE, error |-> "No plates detected"]
    ELSE LET best == CHOOSE i \in 1..Len(possible_plates) :
                        \A j \in 1..Len(possible_plates) :
                           \/ Len(possible_plates[j].strChars) < Len(possible_plates[i].strChars)
                           \/ /\ Len(possible_plates[j].strChars) = Len(possible_plates[i].strChars)
                              /\ i <= j
         IN  IF Len(possible_plates[best].strChars) = 0
             THEN [success |-> FALSE, error |-> "No characters detected"]
             ELSE [success |-> TRUE, raw_text |-> possible_plates[best].strChars]

\* the detection steps of lines 51-60 on a frame: the steps run, the plates
\* found, and the exception a step raised or None
Detection(frame, tupleOfContours) ==
    LET listOfLists == findListOfListsOfMatchingChars(frame.chars)
        found == [i \in 1..Len(listOfLists) |-> [crop |-> frame.crop, strChars |-> <<>>]]
        RunTo(k) == SubSeq(DetectionSteps, 1, k)
    IN  IF frame.raising = "preprocess"
        THEN [steps |-> RunTo(1), plates |-> <<>>, raised |-> "Exception"]
        ELSE IF frame.raising = "transform"
        THEN [steps |-> RunTo(2), plates |-> <<>>, raised |-> "Exception"]
        ELSE IF frame.raising = "detectPlatesInScene"
        THEN [steps |-> RunTo(3), plates |-> <<>>, raised |-> "Exception"]
        ELSE IF Len(found) > 0 /\ tupleOfContours
        THEN [steps |-> RunTo(4), plates |-> found, raised |-> "TypeError"]
        ELSE [steps |-> RunTo(4),
              plates |-> [i \in 1..Len(found) |-> DetectCharsInPlate(found[i])],
              raised |-> None]

\* mutant: the detection steps run outside the try block
recognize_plateUnguarded(self, frame, tupleOfContours) ==
    IF ~self.is_initialized
    THEN [result |-> [success |-> FALSE, error |-> "Not initialized"],
          steps |-> <<>>, plates |-> <<>>]
    ELSE LET detection == Detection(frame, tupleOfContours)
         IN  IF detection.raised # None
             THEN [result |-> [raised |-> detection.raised],
                   steps |-> detection.steps, plates |-> detection.plates]
             ELSE [result |-> ResultOfPlates(detection.plates),
                   steps |-> detection.steps, plates |-> detection.plates]

\* recognize_plate, lines 44-91: the result returned, the detection steps
\* run and the plates they found
recognize_plate(self, frame, tupleOfContours) ==
    IF ~self.is_initialized
    THEN [result |-> [success |-> FALSE, error |-> "Not initialized"],
          steps |-> <<>>, plates |-> <<>>]
    ELSE LET detection == Detection(frame, tupleOfContours)
         IN  IF detection.raised # None
             THEN [result |-> [success |-> FALSE, error |-> detection.raised],
                   steps |-> detection.steps, plates |-> detection.plates]
             ELSE [result |-> ResultOfPlates(detection.plates),
                   steps |-> detection.steps, plates |-> detection.plates]

\* the scenes of the frames: the first characters of ClusterChars, in any order
FrameChars ==
    {list \in UNION {[1..n -> {c \in ClusterChars : c.id <= MaxFrameChars}] : n \in 0..MaxFrameChars} :
        \A k, l \in 1..Len(list) : k # l => list[k].id # list[l].id}

\* the step that raises on the frame, or None
RaisingSteps == {None, "preprocess", "transform", "detectPlatesInScene"}

InitRecognizer ==
    /\ pc = "built"
    /\ contoursIsTuple \in BOOLEAN
    /\ chars \in FrameChars
    /\ candidate = NoChar
    /\ thresholds = CodeThresholds
    /\ accepted = FALSE
    /\ matching = <<>>
    /\ groups = <<>>
    /\ plates = <<>>
    /\ PipelineIdle
    /\ HostIdle
    /\ gate = GateController(DefaultConfig, FALSE)
    /\ sensor = None
    /\ clock = StartTime
    /\ updates = <<>>
    /\ trueTimes = <<>>
    /\ plateRead \in RaisingSteps
    /\ returned = None

\* initialize, lines 31-39: the training data loads, or DetectChars was not
\* imported and nothing is loaded
InitializeSucceeds ==
    /\ recognizer' = [recognizer EXCEPT !.is_initialized = TRUE]
    /\ returned' = TRUE
    /\ pc' = "initialize"
    /\ UNCHANGED <<candidate, thresholds, accepted, chars, matching, groups, plates,
                   contoursIsTuple, resolvedGroups, rrLocations, strChars, gate, sensor,
                   clock, updates, trueTimes, plateRead, verifiedLog, station, system,
                   monitor>>

\* initialize, lines 33-35 and 40-42: loadKNNDataAndTrainKNN answers False
\* or raises
InitializeFails ==
    /\ returned' = FALSE
    /\ pc' = "initialize"
    /\ UNCHANGED <<candidate, thresholds, accepted, chars, matching, groups, plates,
                   contoursIsTuple, resolvedGroups, rrLocations, strChars, gate, sensor,
                   clock, updates, trueTimes, plateRead, hostVars>>

\* recognize_plate(frame)
RecognizePlate ==
    /\ \E crop \in ExtractedCrops :
          LET frame == [chars |-> chars, crop |-> crop, raising |-> plateRead]
              call == recognize_plate(recognizer, frame, contoursIsTuple)
          IN  /\ returned' = call.result
              /\ plates' = call.plates
              /\ recognizer' = [recognizer EXCEPT !.steps = call.steps]
    /\ pc' = "recognize_plate"
    /\ UNCHANGED <<candidate, thresholds, accepted, chars, matching, groups,
                   contoursIsTuple, resolvedGroups, rrLocations, strChars, gate, sensor,
                   clock, updates, trueTimes, plateRead, verifiedLog, station, system,
                   monitor>>

NextRecognizer == InitializeSucceeds \/ InitializeFails \/ RecognizePlate

SpecRecognizer == InitRecognizer /\ [][NextRecognizer]_vars

\* C21: is_initialized is False after construction and becomes True only in
\* an initialize that answers True; recognize_plate on a recognizer that is
\* not initialized returns success False with the error Not initialized and
\* runs no detection step; and every recognize_plate returns a result, which
\* has success False and an error text when a detection step failed.
C21_NeverRaises ==
    [][/\ pc = "built" => ~recognizer.is_initialized
       /\ (recognizer'.is_initialized /\ ~recognizer.is_initialized) =>
             (pc' = "initialize" /\ returned' = TRUE)
       /\ (pc' = "recognize_plate" /\ ~recognizer.is_initialized) =>
             /\ returned' = [success |-> FALSE, error |-> "Not initialized"]
             /\ recognizer'.steps = <<>>
       /\ pc' = "recognize_plate" =>
             /\ "success" \in DOMAIN returned'
             /\ ~returned'.success => ("error" \in DOMAIN returned' /\ returned'.error # "")
             /\ (plateRead' # None \/ (contoursIsTuple /\ Len(plates') > 0)) =>
                   ~returned'.success]_vars

\* a frame with a plate on which detectCharsInPlates raises TypeError: the
\* error comes back as a result
C21_Witness ==
    /\ pc = "recognize_plate"
    /\ recognizer.is_initialized
    /\ recognizer.steps = DetectionSteps
    /\ Len(plates) > 0
    /\ returned = [success |-> FALSE, error |-> "TypeError"]

-----------------------------------------------------------------------------
(* The seeds of the partition, on the scenes of SpecScene.                  *)

\* the positions of the list whose candidate, as a seed, has a group of the
\* minimum size or more
C22_BigEnoughSeeds(list) ==
    {i \in 1..Len(list) : GroupBigEnough(GroupOfSeed(list[i], list))}

\* C22 as stated: a call expands from the first candidate of its list only;
\* the group it emits is seeded by that candidate, and when the first
\* candidate's group is too small no later candidate is tried as a seed, so
\* that the call returns no group.
C22_FirstCandidateOnly ==
    (pc = "partitioned" /\ Len(chars) > 0) =>
        /\ ~GroupBigEnough(GroupOfSeed(chars[1], chars)) => groups = <<>>
        /\ groups # <<>> => groups[1] = GroupOfSeed(chars[1], chars)

\* C22 amended: a call tries the candidates of its list as seeds in the
\* list's order, up to the first whose group has the minimum size; it emits
\* that one group, followed by the groups of the recursive call on the
\* candidates outside it, and tries no seed after it; when no candidate has
\* a group of the minimum size it returns no group.
C22_FirstBigEnoughSeed ==
    pc = "partitioned" =>
        LET big == C22_BigEnoughSeeds(chars)
        IN  /\ big = {} => groups = <<>>
            /\ big # {} =>
                  LET first == CHOOSE i \in big : \A j \in big : i <= j
                  IN  /\ groups # <<>>
                      /\ groups[1] = GroupOfSeed(chars[first], chars)
                      /\ Tail(groups) =
                            findListOfListsOfMatchingChars(ContoursWithout(chars, groups[1]))

\* the first candidate has too small a group and a later one seeds a group
C22_Witness ==
    /\ pc = "partitioned"
    /\ Len(chars) > 0
    /\ ~GroupBigEnough(GroupOfSeed(chars[1], chars))
    /\ Len(groups) = 1
    /\ groups[1] # GroupOfSeed(chars[1], chars)

-----------------------------------------------------------------------------
(* The order of the candidates, on the scenes of Spec.                      *)

\* the bounding box of a candidate, which is what two orderings of a scene
\* have in common (the objects are made anew for every list)
C23_Box(contour) ==
    <<contour.intRectX, contour.intRectY, contour.intRectWidth, contour.intRectHeight>>

\* a grouping: the set of the member sets of the groups
C23_Grouping(listOfLists) ==
    {{C23_Box(listOfLists[i][k]) : k \in 1..Len(listOfLists[i])} : i \in 1..Len(listOfLists)}

\* three characters of height 20 and one of height 24, the tall one last
C23_TallLast ==
    <<Contour(1, 0, 0, 10, 20, 150, ""), Contour(2, 12, 0, 10, 20, 150, ""),
      Contour(3, 24, 2, 10, 20, 150, ""), Contour(4, 36, 0, 10, 24, 150, "")>>

\* the same four boxes, the tall one first
C23_TallFirst ==
    <<Contour(1, 36, 0, 10, 24, 150, ""), Contour(2, 0, 0, 10, 20, 150, ""),
      Contour(3, 12, 0, 10, 20, 150, ""), Contour(4, 24, 2, 10, 20, 150, "")>>

\* C23: the partition depends on the order of its input: the lists
\* C23_TallFirst and C23_TallLast hold the same four candidates, and the
\* grouping returned for the first differs from the one returned for the
\* second (one group of all four against one group of the three of height 20).
C23_OrderSensitive ==
    (pc = "partitioned" /\ chars = C23_TallFirst) =>
        /\ {C23_Box(chars[k]) : k \in 1..Len(chars)}
              = {C23_Box(C23_TallLast[k]) : k \in 1..Len(C23_TallLast)}
        /\ C23_Grouping(groups) # C23_Grouping(findListOfListsOfMatchingChars(C23_TallLast))
        /\ C23_Grouping(groups) = {{C23_Box(chars[k]) : k \in 1..4}}
        /\ C23_Grouping(findListOfListsOfMatchingChars(C23_TallLast))
              = {{C23_Box(C23_TallLast[k]) : k \in 1..3}}

\* the scene with the tall character first was partitioned into one group
C23_Witness ==
    /\ pc = "partitioned"
    /\ chars = C23_TallFirst
    /\ Len(groups) = 1
    /\ Len(groups[1]) = 4

-----------------------------------------------------------------------------
(* The members of a group, on the scenes of Spec.                           *)

\* C24 as stated: the members of a returned group match one another: for
\* every two distinct members x and y, y passes the similarity test with x
\* as the reference.
C24_MutuallyMatching ==
    pc = "partitioned" =>
        \A i \in 1..Len(groups) :
            \A k, l \in 1..Len(groups[i]) :
                k # l => C6_Similar(groups[i][k], groups[i][l])

\* C24 amended: the last member of a returned group is its seed, and every
\* other member passes the similarity test with the seed as the reference.
C24_MembersMatchSeed ==
    pc = "partitioned" =>
        \A i \in 1..Len(groups) :
            LET seed == groups[i][Len(groups[i])]
            IN  \A k \in 1..(Len(groups[i]) - 1) :
                    /\ groups[i][k].id # seed.id
                    /\ C6_Similar(seed, groups[i][k])

\* a returned group has two members, neither of them its seed, of which
\* one does not pass the test against the other
C24_Witness ==
    /\ pc = "partitioned"
    /\ \E i \in 1..Len(groups) :
          \E k, l \in 1..(Len(groups[i]) - 1) :
              /\ k # l
              /\ ~C6_Similar(groups[i][k], groups[i][l])

-----------------------------------------------------------------------------
(* SpecExtract: extractPlate called on a group of any size from nothing up. *)

MaxExtracted == 2

\* the groups handed to extractPlate: lists of distinct candidates
ExtractedGroups ==
    {list \in UNION {[1..n -> ClusterChars] : n \in 0..MaxExtracted} :
        \A k, l \in 1..Len(list) : k # l => list[k].id # list[l].id}

InitExtract ==
    /\ pc = "group"
    /\ matching \in ExtractedGroups
    /\ candidate = NoChar
    /\ thresholds = CodeThresholds
    /\ accepted = FALSE
    /\ chars = <<>>
    /\ groups = <<>>
    /\ plates = <<>>
    /\ contoursIsTuple = FALSE
    /\ PipelineIdle
    /\ HostIdle
    /\ GateIdle

\* extractPlate sorts the list it is given in place (line 95) and returns
\* a plate with its rrLocationOfPlateInScene
ExtractPlate ==
    /\ pc = "group"
    /\ "raised" \notin DOMAIN extractPlate(matching)
    /\ matching' = SortByX(matching)
    /\ rrLocations' = <<extractPlate(matching)>>
    /\ pc' = "extracted"
    /\ UNCHANGED <<candidate, thresholds, accepted, chars, groups, plates,
                   contoursIsTuple, resolvedGroups, strChars, gate, sensor, clock,
                   updates, trueTimes, plateRead, returned, hostVars>>

\* extractPlate raises at line 97 or at line 115, after the sort of line 95
ExtractPlateRaises ==
    /\ pc = "group"
    /\ "raised" \in DOMAIN extractPlate(matching)
    /\ matching' = SortByX(matching)
    /\ returned' = extractPlate(matching).raised
    /\ pc' = "raised"
    /\ UNCHANGED <<candidate, thresholds, accepted, chars, groups, plates,
                   contoursIsTuple, resolvedGroups, rrLocations, strChars, gate, sensor,
                   clock, updates, trueTimes, plateRead, hostVars>>

NextExtract == ExtractPlate \/ ExtractPlateRaises

SpecExtract == InitExtract /\ [][NextExtract]_vars

\* C25 as stated: extractPlate on a group of fewer than two members ends
\* in an assertion failure and returns no plate region.
C25_SmallGroupAsserts ==
    (pc # "group" /\ Len(matching) < 2) =>
        /\ pc = "raised"
        /\ returned = "AssertionError"
        /\ rrLocations = <<>>

\* what the code does on such a group: IndexError on none, ZeroDivisionError
\* on one member, and no region in either case
SmallGroupRaises ==
    (pc # "group" /\ Len(matching) < 2) =>
        /\ pc = "raised"
        /\ returned = IF Len(matching) = 0 THEN "IndexError" ELSE "ZeroDivisionError"
        /\ rrLocations = <<>>

-----------------------------------------------------------------------------
(* The ends of a group, on the scenes of Spec.                              *)

\* C28: in every group the partition returns, no member other than the seed
\* (the last member) has the seed's bounding-box x; the leftmost and the
\* rightmost member have different x, the distance between them is not
\* zero, and extractPlate on the group does not raise at its division.
C28_EndsApart ==
    pc = "partitioned" =>
        \A i \in 1..Len(groups) :
            LET seed == groups[i][Len(groups[i])]
                sorted == SortByX(groups[i])
            IN  /\ \A k \in 1..(Len(groups[i]) - 1) : groups[i][k].intRectX # seed.intRectX
                /\ Leftmost(groups[i]).intRectX < Rightmost(groups[i]).intRectX
                /\ sorted[1].intRectX < sorted[Len(sorted)].intRectX
                /\ distanceBetweenCharsSquared(sorted[1], sorted[Len(sorted)]) > 0
                /\ "raised" \notin DOMAIN extractPlate(groups[i])

\* a group with two members at one x, neither of them the seed
C28_Witness ==
    /\ pc = "partitioned"
    /\ \E i \in 1..Len(groups) :
          /\ \E k, l \in 1..(Len(groups[i]) - 1) :
                k # l /\ groups[i][k].intRectX = groups[i][l].intRectX
          /\ "intPlateWidth" \in DOMAIN extractPlate(groups[i])

-----------------------------------------------------------------------------
(* SpecStation: main.py, process_video_stream with a GateController that    *)
(* uses no sensor.  The recognizer's answer for a frame is an input: no     *)
(* plate, or one of the plates of Plates.  pc names the step taken last.    *)

MaxFrames == 5

\* mutant: the gate opens for every plate that has access
OpensGateOnAccess(verified, access_result) == access_result.access_granted

\* lines 138-146: open_gate is called for a verified plate that has access
OpensGate(verified, access_result) == verified /\ access_result.access_granted

\* main, lines 51-57: the loop is entered only after plate_recognizer.initialize()
\* answered True and gate_controller.initialize() was called
InitStation ==
    /\ pc = "stream"
    /\ gate \in {GateController(config, FALSE) : config \in GateConfigs}
    /\ sensor = None
    /\ clock = StartTime
    /\ updates = <<>>
    /\ trueTimes = <<>>
    /\ plateRead = ""
    /\ returned = None
    /\ candidate = NoChar
    /\ thresholds = CodeThresholds
    /\ accepted = FALSE
    /\ chars = <<>>
    /\ matching = <<>>
    /\ groups = <<>>
    /\ plates = <<>>
    /\ contoursIsTuple = FALSE
    /\ PipelineIdle
    /\ recognizer = [PlateRecognizer EXCEPT !.is_initialized = TRUE]
    /\ verifiedLog = <<>>
    /\ StationIdle
    /\ SystemIdle
    /\ MonitorIdle

\* one turn of the loop, lines 110-130, on a frame without a plate:
\* should_process_frame answers True, recognize_plate answers success False
FrameWithoutPlate ==
    /\ pc # "done"
    /\ station.frames < MaxFrames
    /\ should_process_frame(gate, sensor, clock)
    /\ station' = [station EXCEPT !.frames = @ + 1, !.success = FALSE, !.verified = FALSE]
    /\ pc' = "frame"
    /\ UNCHANGED <<gate, sensor, clock, updates, trueTimes, plateRead, returned,
                   visionVars, recognizer, verifiedLog, system, monitor>>

\* one turn of the loop, lines 110-146, on a frame whose plate was read:
\* check_access, update_verification, is_plate_verified and, for a verified
\* plate with access, open_gate
FrameWithPlate ==
    /\ pc # "done"
    /\ station.frames < MaxFrames
    /\ should_process_frame(gate, sensor, clock)
    /\ \E plate \in Plates :
          LET access_result == check_access(gate, plate)
              checked == [gate EXCEPT !.last_access_result = access_result]
              updated == update_verification(checked, plate)
              verified == is_plate_verified(updated)
          IN  /\ plateRead' = plate
              /\ returned' = access_result
              /\ updates' = Append(updates, plate)
              /\ gate' = IF verified
                         THEN [updated EXCEPT !.last_verified_plate = plate]
                         ELSE updated
              /\ verifiedLog' = IF verified THEN Append(verifiedLog, plate) ELSE verifiedLog
              /\ station' = [frames |-> station.frames + 1,
                             success |-> TRUE,
                             verified |-> verified,
                             opened |-> IF OpensGate(verified, access_result)
                                        THEN Append(station.opened, plate)
                                        ELSE station.opened]
    /\ pc' = "frame"
    /\ UNCHANGED <<sensor, clock, trueTimes, visionVars, recognizer, system, monitor>>

\* lines 111-112 and 154-155: the stream ends or ESC is pressed
EndOfStream ==
    /\ pc # "done"
    /\ pc' = "done"
    /\ UNCHANGED <<gate, sensor, clock, updates, trueTimes, plateRead, returned,
                   visionVars, hostVars>>

NextStation == FrameWithoutPlate \/ FrameWithPlate \/ EndOfStream

SpecStation == InitStation /\ [][NextStation]_vars

\* C26: open_gate is called only in a frame whose recognition succeeded,
\* for which is_plate_verified answered True and check_access granted access
\* to the plate of that frame; the last verification_count successful
\* recognitions then all gave that plate.  A frame whose recognition failed
\* changes neither the verification buffer nor anything else of the
\* controller, and does not open the gate.
C26_GateOpensForVerifiedAccess ==
    [][/\ station'.opened # station.opened =>
             /\ station'.opened = Append(station.opened, plateRead')
             /\ station'.frames = station.frames + 1
             /\ station'.success
             /\ station'.verified
             /\ returned'.access_granted
             /\ returned'.plate = plateRead'
             /\ InPlates(plateRead', gate.homeowner_plates)
                   \/ InPlates(plateRead', gate.guest_plates)
             /\ Len(updates') >= gate.verification_count
             /\ \A k \in 1..Len(updates') :
                   k > Len(updates') - gate.verification_count => updates'[k] = plateRead'
       /\ (station'.frames # station.frames /\ ~station'.success) =>
             /\ gate' = gate
             /\ updates' = updates
             /\ station'.opened = station.opened]_vars

\* the gate was opened for a plate although a frame in between had no plate
C26_Witness ==
    /\ Len(station.opened) = 1
    /\ station.opened[1] = plateRead
    /\ station.success
    /\ station.verified
    /\ returned.access_granted
    /\ station.frames = 4
    /\ Len(updates) = 3

-----------------------------------------------------------------------------
(* The plate verified last, on the calls of SpecAccess.                     *)

\* C29: is_plate_verified never answers True twice for one plate without
\* answering True for another plate in between: the plates it answered True
\* for, in order, never repeat from one to the next; last_verified_plate is
\* the last of them and is never cleared, so that a verified plate seen
\* again and again is not verified again.
C29_NoRepeatedVerification ==
    /\ \A k \in 1..(Len(verifiedLog) - 1) : verifiedLog[k] # verifiedLog[k + 1]
    /\ gate.last_verified_plate =
          IF verifiedLog = <<>> THEN "" ELSE verifiedLog[Len(verifiedLog)]
    /\ (pc = "is_plate_verified" /\ Len(updates) >= gate.verification_count
          /\ \A k \in 1..Len(updates) :
                k > Len(updates) - gate.verification_count =>
                    updates[k] = updates[Len(updates)])
          => gate.last_verified_plate = updates[Len(updates)]

\* a plate verified once is read a fourth and fifth time and not verified
\* again
C29_Witness ==
    /\ pc = "is_plate_verified"
    /\ returned = FALSE
    /\ Len(updates) = 5
    /\ \A k \in 1..Len(updates) : updates[k] = updates[1]
    /\ verifiedLog = <<updates[1]>>

-----------------------------------------------------------------------------
(* SpecSystem: main3.py, the loop of PlateRecognitionSystem.run with the    *)
(* threads handle_plate_detection starts.  The plate read in a frame is an  *)
(* input.  pc names the step taken last.                                    *)

MaxSeconds == 8

\* Config, main3.py lines 42-55
MOTOR_STEP_DELAY == 2
GATE_OPEN_STEPS == 200
AUTO_CLOSE_DELAY == 5
DETECTION_COOLDOWN == 3
AUTHORIZED_PLATES == {"R5477DP", "R6978SF"}

\* the plates read from the frames
DetectedPlates == {"R5477DP", "X9999XX"}

\* seconds in milliseconds; MOTOR_STEP_DELAY, 0.002 s, is kept in milliseconds
Ms(seconds) == seconds * 1000

\* step_motor, lines 70-86, for the steps of the gate: each step sleeps
\* MOTOR_STEP_DELAY twice
MotorTime == GATE_OPEN_STEPS * 2 * MOTOR_STEP_DELAY

RECURSIVE GCD(_, _)
GCD(a, b) == IF b = 0 THEN a ELSE GCD(b, a % b)

\* the step of the clock: the longest of which a second and the motor's
\* time are multiples
TimeStep == GCD(Ms(1), MotorTime)

\* line 334 and line 355: gate_close_timer is a threading.Thread, which has
\* no cancel method; the call raises AttributeError
CancelTimer(self) == [self EXCEPT !.raised = "AttributeError"]

\* _schedule_gate_close, lines 352-359, at time now
schedule_gate_close(self, now) ==
    LET cancelled == IF self.gate_close_timer = "alive" THEN CancelTimer(self) ELSE self
    IN  IF cancelled.raised # None
        THEN cancelled
        ELSE [cancelled EXCEPT !.gate_close_timer = "alive",
                               !.close_at = now + Ms(AUTO_CLOSE_DELAY)]

\* handle_plate_detection, lines 305-345: current_time was read at line 310
\* and gate_action_lock is taken at time now
handle_plate_detection(self, plate_text, current_time, now) ==
    IF current_time - self.last_detection_time < Ms(DETECTION_COOLDOWN)
    THEN [self EXCEPT !.branch = "cooldown"]
    ELSE IF plate_text \in AUTHORIZED_PLATES
    THEN IF ~self.is_gate_open
         THEN [self EXCEPT !.opening = TRUE, !.opened_at = now + MotorTime,
                           !.is_gate_open = TRUE,
                           !.last_detection_time = current_time, !.branch = "open"]
         ELSE IF self.gate_close_timer = "alive"
         THEN LET cancelled == CancelTimer([self EXCEPT !.branch = "reschedule"])
              IN  IF cancelled.raised # None
                  THEN cancelled
                  ELSE [schedule_gate_close([cancelled EXCEPT !.gate_close_timer = None],
                                            now)
                           EXCEPT !.last_detection_time = current_time]
         ELSE [self EXCEPT !.last_detection_time = current_time, !.branch = "already open"]
    ELSE [self EXCEPT !.last_detection_time = current_time, !.branch = "unauthorized"]

InitSystem ==
    /\ pc = "run"
    /\ gate = GateController(DefaultConfig, FALSE)
    /\ sensor = None
    /\ clock = Ms(StartTime)
    /\ updates = <<>>
    /\ trueTimes = <<>>
    /\ plateRead = ""
    /\ returned = None
    /\ VisionIdle

gateVars == <<gate, sensor, updates, trueTimes, returned>>

\* the program has ended: run() has returned and the thread of
\* _open_gate_and_schedule_close, which is no daemon, has ended; the daemon
\* thread of the auto-close ends with the program
Exited == ~system.running /\ ~system.opening

\* what the handler leaves: an exception ends the loop at line 404 and
\* cleanup follows
Handled(self, plate_text, current_time, now) ==
    LET handled == handle_plate_detection(self, plate_text, current_time, now)
    IN  IF handled.raised # None
        THEN [handled EXCEPT !.running = FALSE, !.waiting = <<>>]
        ELSE [handled EXCEPT !.waiting = <<>>]

\* run, lines 385-389: a frame with a plate is handled while
\* gate_action_lock is free
HandlePlateDetection ==
    /\ system.running
    /\ system.waiting = <<>>
    /\ ~system.closing
    /\ \E plate_text \in DetectedPlates :
          /\ plateRead' = plate_text
          /\ system' = Handled(system, plate_text, clock, clock)
    /\ pc' = "handle_plate_detection"
    /\ UNCHANGED <<clock, gateVars, visionVars, recognizer, verifiedLog, station, monitor>>

\* handle_plate_detection, lines 310-313: the time is read and the handler
\* waits for gate_action_lock, which the auto-close task holds
HandlePlateDetectionWaits ==
    /\ system.running
    /\ system.waiting = <<>>
    /\ system.closing
    /\ \E plate_text \in DetectedPlates :
          /\ plateRead' = plate_text
          /\ system' = [system EXCEPT !.waiting =
                            <<[plate_text |-> plate_text, current_time |-> clock]>>]
    /\ pc' = "gate_action_lock"
    /\ UNCHANGED <<clock, gateVars, visionVars, recognizer, verifiedLog, station, monitor>>

\* handle_plate_detection, lines 313-345, once the auto-close task has
\* released gate_action_lock
HandlePlateDetectionResumes ==
    /\ system.waiting # <<>>
    /\ ~system.closing
    /\ system' = Handled(system, system.waiting[1].plate_text,
                         system.waiting[1].current_time, clock)
    /\ pc' = "handle_plate_detection"
    /\ UNCHANGED <<clock, plateRead, gateVars, visionVars, recognizer, verifiedLog,
                   station, monitor>>

\* _open_gate_and_schedule_close, lines 347-350: the motor has opened the
\* gate and the closing is scheduled
OpenGateAndScheduleClose ==
    /\ system.opening
    /\ clock = system.opened_at
    /\ system' = [schedule_gate_close(system, clock) EXCEPT !.opening = FALSE]
    /\ pc' = "_open_gate_and_schedule_close"
    /\ UNCHANGED <<clock, plateRead, gateVars, visionVars, recognizer, verifiedLog,
                   station, monitor>>

\* the sleep of the auto-close task is over
CloseDue ==
    /\ ~Exited
    /\ system.gate_close_timer = "alive"
    /\ ~system.closing
    /\ clock = system.close_at

\* _auto_close_gate_task, lines 363-366: after its sleep the task takes
\* gate_action_lock and starts the motor if the gate is open
AutoCloseGateStarts ==
    /\ CloseDue
    /\ system' = IF system.is_gate_open
                 THEN [system EXCEPT !.closing = TRUE, !.closed_at = clock + MotorTime]
                 ELSE [system EXCEPT !.gate_close_timer = "dead"]
    /\ pc' = "close_gate_thread"
    /\ UNCHANGED <<clock, plateRead, gateVars, visionVars, recognizer, verifiedLog,
                   station, monitor>>

\* _auto_close_gate_task, lines 366-368: the motor has closed the gate; the
\* task releases gate_action_lock and ends
AutoCloseGate ==
    /\ ~Exited
    /\ system.closing
    /\ clock = system.closed_at
    /\ system' = [system EXCEPT !.is_gate_open = FALSE, !.closing = FALSE,
                                !.gate_close_timer = "dead"]
    /\ pc' = "_auto_close_gate_task"
    /\ UNCHANGED <<clock, plateRead, gateVars, visionVars, recognizer, verifiedLog,
                   station, monitor>>

\* run, lines 379-382: cap.read() fails; the loop ends and cleanup follows
CameraReadFails ==
    /\ system.running
    /\ system.waiting = <<>>
    /\ system' = [system EXCEPT !.running = FALSE]
    /\ pc' = "cap.read"
    /\ UNCHANGED <<clock, plateRead, gateVars, visionVars, recognizer, verifiedLog,
                   station, monitor>>

\* run, lines 401-402: cv2.waitKey answers 'q'; the loop ends and cleanup
\* follows
QuitKey ==
    /\ system.running
    /\ system.waiting = <<>>
    /\ system' = [system EXCEPT !.running = FALSE]
    /\ pc' = "cv2.waitKey"
    /\ UNCHANGED <<clock, plateRead, gateVars, visionVars, recognizer, verifiedLog,
                   station, monitor>>

\* time passes, unless a thread is due: a motor that has ended, a sleep that
\* is over, a handler that can take the lock
TimePasses ==
    /\ clock < Ms(StartTime + MaxSeconds)
    /\ ~(system.opening /\ clock = system.opened_at)
    /\ ~CloseDue
    /\ ~(~Exited /\ system.closing /\ clock = system.closed_at)
    /\ ~(system.waiting # <<>> /\ ~system.closing)
    /\ clock' = clock + TimeStep
    /\ pc' = "sleep"
    /\ UNCHANGED <<system, plateRead, gateVars, visionVars, recognizer, verifiedLog,
                   station, monitor>>

NextSystem ==
    \/ HandlePlateDetection
    \/ HandlePlateDetectionWaits
    \/ HandlePlateDetectionResumes
    \/ OpenGateAndScheduleClose
    \/ AutoCloseGateStarts
    \/ AutoCloseGate
    \/ CameraReadFails
    \/ QuitKey
    \/ TimePasses

SpecSystem == InitSystem /\ [][NextSystem]_vars

\* C27: when handle_plate_detection meets an authorized plate outside the
\* cooldown while the gate is open and its auto-close is pending, it cancels
\* the pending auto-close and schedules a new one, returns normally, and the
\* loop goes on with the gate open until the new auto-close fires.
C27_AutoCloseRescheduled ==
    (pc = "handle_plate_detection" /\ system.branch = "reschedule") =>
        /\ system.raised = None
        /\ system.running
        /\ system.is_gate_open
        /\ system.gate_close_timer = "alive"
        /\ system.close_at = clock + Ms(AUTO_CLOSE_DELAY)
        /\ system.last_detection_time = clock

\* what the code does there: the handler raises, the loop ends with the
\* gate open and the old auto-close is neither cancelled nor replaced
RescheduleEndsTheLoop ==
    (pc = "handle_plate_detection" /\ system.branch = "reschedule") =>
        /\ system.raised = "AttributeError"
        /\ ~system.running
        /\ system.is_gate_open
        /\ system.close_at < clock + Ms(AUTO_CLOSE_DELAY)

-----------------------------------------------------------------------------
(* SpecMonitor: an UltrasonicSensor, one thread calling start_monitoring    *)
(* and stop_monitoring, and the threads of monitor_distance.                *)

MaxThreads == 2

InitMonitor ==
    /\ pc = "built"
    /\ gate = GateController(DefaultConfig, FALSE)
    /\ sensor = UltrasonicSensor
    /\ clock = StartTime
    /\ updates = <<>>
    /\ trueTimes = <<>>
    /\ plateRead = ""
    /\ returned = None
    /\ VisionIdle

\* the monitor threads that have not ended
AliveThreads ==
    {t \in 1..Len(monitor.threads) : monitor.threads[t] \notin {"unstarted", "dead"}}

\* start_monitoring, lines 98-104
StartMonitoring ==
    /\ monitor.caller = "idle"
    /\ Len(monitor.threads) < MaxThreads
    /\ monitor' = start_monitoring(monitor)
    /\ pc' = "start_monitoring"
    /\ UNCHANGED <<sensor, monitorFrame>>

\* stop_monitoring, lines 106-110, up to the call of join
StopMonitoring ==
    /\ monitor.caller = "idle"
    /\ monitor' = [monitor EXCEPT !.is_running = FALSE,
                                  !.caller = IF monitor.monitor_thread # 0
                                             THEN "join" ELSE "idle"]
    /\ pc' = "stop_monitoring"
    /\ UNCHANGED <<sensor, monitorFrame>>

\* line 110: join returns because the thread has ended
JoinReturns ==
    /\ monitor.caller = "join"
    /\ monitor.threads[monitor.monitor_thread] = "dead"
    /\ monitor' = [monitor EXCEPT !.caller = "idle"]
    /\ pc' = "stop_monitoring returned"
    /\ UNCHANGED <<sensor, monitorFrame>>

\* line 110: join(timeout=1.0) returns after a second although the thread
\* has not ended: it is still inside measure_distance (a blocked read of the
\* pin, or a wall clock set back under the time.time() loops of lines 61-76)
JoinTimesOut ==
    /\ monitor.caller = "join"
    /\ monitor.threads[monitor.monitor_thread] = "measure"
    /\ monitor' = [monitor EXCEPT !.caller = "idle"]
    /\ pc' = "stop_monitoring returned"
    /\ UNCHANGED <<sensor, monitorFrame>>

NextMonitor ==
    \/ StartMonitoring
    \/ StopMonitoring
    \/ JoinReturns
    \/ JoinTimesOut
    \/ MonitorTestsFlag
    \/ MonitorMeasures
    \/ MonitorWrites
    \/ MonitorWakes

SpecMonitor == InitMonitor /\ [][NextMonitor]_vars

\* C30: at most one monitor thread is alive at any time, whatever the
\* interleaving of start_monitoring, stop_monitoring and the background
\* loop; a start_monitoring issued after stop_monitoring has returned does
\* not run alongside the thread started before.
C30_OneMonitorThread == Cardinality(AliveThreads) <= 1


=============================================================================
